---- MODULE Spec2Model ----
(***************************************************************************)
(* Model of the Sidecar front-IO LED path and FPGA bring-up:               *)
(*   drv/i2c-devices/src/pca9956b.rs       PCA9956B register driver        *)
(*   drv/sidecar-front-io/src/leds.rs      Leds (two PCA9956B drivers)     *)
(*   drv/sidecar-seq-server/src/main.rs    sequencer task start-up         *)
(*   drv/sidecar-seq-server/src/front_io.rs FrontIOBoard bring-up          *)
(*                                                                         *)
(* SpecLeds runs the Leds / Pca9956B operations one I2C transaction per    *)
(* step; SpecSeq runs the sequencer's main one hardware operation per      *)
(* step.  Each specification leaves the other part's variables untouched.  *)
(***************************************************************************)
EXTENDS Integers, Sequences, FiniteSets, TLC

VARIABLES
    \* ---- Leds / Pca9956B call in progress ----
    lpc,        \* position inside the current call
    op,         \* the public operation that was called
    arg,        \* the arguments it was called with
    ctl,        \* LedController whose driver is being used (0 Left, 1 Right)
    mode2,      \* check_for_errors: local `mode2`
    eflags,     \* check_for_errors: local `eflags`
    err_state,  \* check_for_errors: local `err_state`
    cfe_ret,    \* value returned by check_for_errors
    polls,      \* what check_for_errors returned for each side in this call
    errs,       \* error_summary: local `errs`
    ret,        \* value returned by the public operation
    bus,        \* I2C transactions issued by the current call, in order
    \* ---- the front panel the Leds operations act on ----
    sysled,     \* the left driver's PWM23 register holds DEFAULT_LED_PWM
    prev,       \* the update_led_state call that returned Ok just before this call
    \* ---- sequencer task ----
    mpc,        \* position inside main / FrontIOBoard::init
    fio,        \* locals of FrontIOBoard::init and of main's front-IO block
    hw,         \* operations main issued to other tasks and devices, in order
    trace       \* ringbuf entries written by main, in order

panelVars == <<sysled, prev>>
ledVars == <<lpc, op, arg, ctl, mode2, eflags, err_state, cfe_ret, polls, errs, ret, bus,
             sysled, prev>>
seqVars == <<mpc, fio, hw, trace>>
vars == <<lpc, op, arg, ctl, mode2, eflags, err_state, cfe_ret, polls, errs, ret, bus,
          sysled, prev,
          mpc, fio, hw, trace>>

(***************************************************************************)
(* u8 arithmetic                                                           *)
(***************************************************************************)
U8 == 0..255

RECURSIVE BitAnd(_, _)
BitAnd(a, b) ==
    IF a = 0 \/ b = 0 THEN 0
    ELSE (IF a % 2 = 1 /\ b % 2 = 1 THEN 1 ELSE 0) + 2 * BitAnd(a \div 2, b \div 2)

RECURSIVE BitOr(_, _)
BitOr(a, b) ==
    IF a = 0 THEN b
    ELSE IF b = 0 THEN a
    ELSE (IF a % 2 = 1 \/ b % 2 = 1 THEN 1 ELSE 0) + 2 * BitOr(a \div 2, b \div 2)

BitNot8(a) == 255 - a

Shl8(a, n) == (a * 2^n) % 256

Shr(a, n) == a \div 2^n

(***************************************************************************)
(* pca9956b.rs: registers and flag bits                                    *)
(***************************************************************************)
MODE2 == 1
EFLAG0 == 65
CTRL_AUTO_INCR == 128
MODE2_OVERTEMP == 128
MODE2_ERROR == 64
MODE2_CLRERR == 16
NUM_LEDS == 24
EFLAG_LEN == 6

Left == 0
Right == 1
Sides == {Left, Right}

\* LedErr::from(u8)
LedErrFrom(i) ==
    CASE i = 0 -> "NoError"
      [] i = 1 -> "ShortCircuit"
      [] i = 2 -> "OpenCircuit"
      [] OTHER -> "Invalid"

\* Pca9956BErrorState { ..Default::default() }
DefaultErrorState ==
    [led_errors |-> [c \in 0..(NUM_LEDS - 1) |-> "NoError"], overtemp |-> FALSE]

\* LedErrSummary::default()
DefaultSummary == [overtemp |-> FALSE, short_circuit |-> 0, open_circuit |-> 0, invalid |-> 0]

\* Pca9956BErrorState::summary
Summary(st) ==
    [overtemp      |-> st.overtemp,
     short_circuit |-> Cardinality({c \in DOMAIN st.led_errors : st.led_errors[c] = "ShortCircuit"}) % 256,
     open_circuit  |-> Cardinality({c \in DOMAIN st.led_errors : st.led_errors[c] = "OpenCircuit"}) % 256,
     invalid       |-> Cardinality({c \in DOMAIN st.led_errors : st.led_errors[c] = "Invalid"}) % 256]

\* Option<Pca9956BErrorState>
NoneState == [some |-> FALSE, val |-> DefaultErrorState]
SomeState(st) == [some |-> TRUE, val |-> st]

\* Result<Option<Pca9956BErrorState>, Error>
OkRes(o) == [tag |-> "Ok", code |-> "none", opt |-> o]
ErrRes(code) == [tag |-> "I2cError", code |-> code, opt |-> NoneState]
NoRes == [tag |-> "none", code |-> "none", opt |-> NoneState]

\* Result<Option<FullErrorSummary>, Error>
OkNoSummary == [tag |-> "Ok", some |-> FALSE, left |-> DefaultSummary, right |-> DefaultSummary]
OkSummary(l, r) == [tag |-> "Ok", some |-> TRUE, left |-> l, right |-> r]

(***************************************************************************)
(* What the bus and the devices can answer                                 *)
(***************************************************************************)
\* ResponseCode values an I2C transaction can fail with
ResponseCodes == {"NoDevice", "BusLocked"}

\* MODE2 readings: every combination of OVERTEMP, ERROR and CLRERR over the
\* read-only low bits 0b101.
Mode2Readings == {h * 16 + 5 : h \in {0, 1, 4, 5, 8, 9, 12, 13}}

\* EFLAG0..EFLAG5 readings: every byte value in every position, and four
\* readings with all six bytes non-zero.
EflagReadings ==
    {[i \in 0..(EFLAG_LEN - 1) |-> IF i = k THEN b ELSE 0] : k \in 0..(EFLAG_LEN - 1), b \in U8}
    \cup {[i \in 0..(EFLAG_LEN - 1) |-> b] : b \in {85, 170, 255, 228}}

NoEflags == [i \in 0..(EFLAG_LEN - 1) |-> 0]

\* One I2C transaction as the device handle sees it; code is the ResponseCode
\* it failed with, "none" when it succeeded.
ReadReg(dev, reg, code) ==
    [dev |-> dev, kind |-> "read_reg", addr |-> reg, len |-> 1, data |-> <<>>, code |-> code]
ReadRegInto(dev, reg, n, code) ==
    [dev |-> dev, kind |-> "read_reg_into", addr |-> reg, len |-> n, data |-> <<>>, code |-> code]
Write(dev, bytes, code) ==
    [dev |-> dev, kind |-> "write", addr |-> bytes[1], len |-> Len(bytes), data |-> bytes, code |-> code]

(***************************************************************************)
(* Pca9956B::check_for_errors                                              *)
(***************************************************************************)
\* `overtemp || error`
FaultSignalled_NonZero(m) == m # 0
FaultSignalled(m) == BitAnd(m, MODE2_OVERTEMP) # 0 \/ BitAnd(m, MODE2_ERROR) # 0

\* the decode loop over eflags
DecodeEflags(ef) ==
    [c \in 0..(NUM_LEDS - 1) |->
        LedErrFrom(BitAnd(ef[c \div 4], Shl8(3, (c % 4) * 2)))]

\* value written back to MODE2
ClearValue(m) == BitAnd(m, BitNot8(MODE2_CLRERR))

\* let mode2 = self.read_reg(Register::MODE2)?; and the branch on it
CfeReadMode2 ==
    /\ lpc = "cfe_mode2"
    /\ \/ \E code \in ResponseCodes :
            /\ bus' = Append(bus, ReadReg(ctl, MODE2, code))
            /\ cfe_ret' = ErrRes(code)
            /\ lpc' = "cfe_ret"
            /\ UNCHANGED <<mode2, err_state>>
       \/ \E m \in Mode2Readings :
            /\ bus' = Append(bus, ReadReg(ctl, MODE2, "none"))
            /\ mode2' = m
            /\ IF FaultSignalled(m)
               THEN /\ err_state' = [DefaultErrorState EXCEPT
                                        !.overtemp = BitAnd(m, MODE2_OVERTEMP) # 0]
                    /\ lpc' = "cfe_eflags"
                    /\ UNCHANGED cfe_ret
               ELSE /\ cfe_ret' = OkRes(NoneState)
                    /\ lpc' = "cfe_ret"
                    /\ UNCHANGED err_state
    /\ UNCHANGED <<op, arg, ctl, eflags, polls, errs, ret>>
    /\ UNCHANGED seqVars

\* the `?` on read_buffer's result: on to the decode and the MODE2 write, or
\* return the error
AfterEflagRead_ClearAnyway(code) == "cfe_clear"
AfterEflagRead(code) == IF code = "none" THEN "cfe_clear" ELSE "cfe_ret"

\* self.read_buffer(Register::EFLAG0, &mut eflags)?; and the decode loop
CfeReadEflags ==
    /\ lpc = "cfe_eflags"
    /\ \/ \E code \in ResponseCodes :
            /\ bus' = Append(bus, ReadRegInto(ctl, BitOr(EFLAG0, CTRL_AUTO_INCR), EFLAG_LEN, code))
            /\ cfe_ret' = ErrRes(code)
            /\ lpc' = AfterEflagRead(code)
            /\ UNCHANGED <<eflags, err_state>>
       \/ \E ef \in EflagReadings :
            /\ bus' = Append(bus, ReadRegInto(ctl, BitOr(EFLAG0, CTRL_AUTO_INCR), EFLAG_LEN, "none"))
            /\ eflags' = ef
            /\ err_state' = [err_state EXCEPT !.led_errors = DecodeEflags(ef)]
            /\ lpc' = AfterEflagRead("none")
            /\ UNCHANGED cfe_ret
    /\ UNCHANGED <<op, arg, ctl, mode2, polls, errs, ret>>
    /\ UNCHANGED seqVars

\* what check_for_errors returns after the MODE2 write
ClearOutcome_IgnoreFailure(code, st) == OkRes(SomeState(st))
ClearOutcome(code, st) == IF code = "none" THEN OkRes(SomeState(st)) ELSE ErrRes(code)

\* self.write_reg(Register::MODE2, mode2 & !MODE2_CLRERR)?; Ok(Some(err_state))
CfeClearErrors ==
    /\ lpc = "cfe_clear"
    /\ \E code \in ResponseCodes \cup {"none"} :
          /\ bus' = Append(bus, Write(ctl, <<MODE2, ClearValue(mode2)>>, code))
          /\ cfe_ret' = ClearOutcome(code, err_state)
    /\ lpc' = "cfe_ret"
    /\ UNCHANGED <<op, arg, ctl, mode2, eflags, err_state, polls, errs, ret>>
    /\ UNCHANGED seqVars

(***************************************************************************)
(* Leds::check_errors and Leds::error_summary                              *)
(***************************************************************************)
\* no update_led_state call returned Ok just before this one
NoPrev == [some |-> FALSE, mask |-> {}, bus |-> <<>>]

\* the arguments of a call: led and val of set_a_led_pwm, vals of
\* set_all_led_pwm, mask of update_led_state as the set of its set bits
NoArg == [led |-> 0, val |-> 0, vals |-> <<>>, mask |-> {}]

NotPolled == [s \in Sides |-> NoRes]
NoErrs == [s \in Sides |-> NoneState]

\* a call starts with fresh locals
StartCall(o, side) ==
    /\ lpc = "idle"
    /\ op' = o
    /\ arg' = NoArg
    /\ ctl' = side
    /\ lpc' = "cfe_mode2"
    /\ mode2' = 0
    /\ eflags' = NoEflags
    /\ err_state' = DefaultErrorState
    /\ cfe_ret' = NoRes
    /\ polls' = NotPolled
    /\ errs' = NoErrs
    /\ ret' = NoRes
    /\ bus' = <<>>
    /\ UNCHANGED seqVars

\* Leds::check_errors(controller)
CheckErrorsCall == \E side \in Sides : StartCall("check_errors", side)

\* Ok(self.controllers[controller as usize].check_for_errors()?)
CheckErrorsReturn ==
    /\ lpc = "cfe_ret"
    /\ op = "check_errors"
    /\ polls' = [polls EXCEPT ![ctl] = cfe_ret]
    /\ ret' = cfe_ret
    /\ lpc' = "done"
    /\ UNCHANGED <<op, arg, ctl, mode2, eflags, err_state, cfe_ret, errs, bus>>
    /\ UNCHANGED seqVars

\* Leds::error_summary: the first element of `errs` is a poll of the left side
ErrorSummaryCall == StartCall("error_summary", Left)

\* Result::unwrap_or(None)
UnwrapOrNone(r) == IF r.tag = "Ok" THEN r.opt ELSE NoneState

\* errs.iter().fold(true, |no_error, next| no_error | next.is_none())
RECURSIVE FoldNoErrors(_, _, _)
FoldNoErrors(acc, e, i) ==
    IF i > Right THEN acc ELSE FoldNoErrors(acc \/ ~e[i].some, e, i + 1)

NoErrorsOf(e) == FoldNoErrors(TRUE, e, Left)

\* the summary error_summary builds from `errs`
SummaryOf(e) ==
    IF NoErrorsOf(e) THEN OkNoSummary
    ELSE OkSummary(IF e[Left].some THEN Summary(e[Left].val) ELSE DefaultSummary,
                   IF e[Right].some THEN Summary(e[Right].val) ELSE DefaultSummary)

\* error_summary after the left poll returned: errs = [left.unwrap_or(None), None]
ErrorSummaryReturn ==
    /\ lpc = "cfe_ret"
    /\ op = "error_summary"
    /\ polls' = [polls EXCEPT ![ctl] = cfe_ret]
    /\ LET e == [s \in Sides |-> IF s = Left THEN UnwrapOrNone(cfe_ret) ELSE NoneState]
       IN  /\ errs' = e
           /\ ret' = SummaryOf(e)
    /\ lpc' = "done"
    /\ UNCHANGED <<op, arg, ctl, mode2, eflags, err_state, cfe_ret, bus>>
    /\ UNCHANGED seqVars

(***************************************************************************)
(* Pca9956B::set_a_led_pwm, Pca9956B::set_all_led_pwm and                  *)
(* Leds::update_led_state                                                  *)
(***************************************************************************)
PWM0 == 10
PWMALL == 63
IREFALL == 64
LAST_REGISTER == 70
STAGING_LEN == 25
DEFAULT_LED_PWM == 255
NUM_PORTS == 32
PORT_BUF_LEN == 16

\* Result<(), Error>
UnitOk == [tag |-> "Ok", code |-> "none", led |-> 0]
I2cError(code) == [tag |-> "I2cError", code |-> code, led |-> 0]
InvalidLED(n) == [tag |-> "InvalidLED", code |-> "none", led |-> n]
Panicked == [tag |-> "panic", code |-> "none", led |-> 0]

\* .map_err(|code| Error::I2cError(code)) on the device's answer
MapErr_Swallowed(code) == UnitOk
MapErr(code) == IF code = "none" THEN UnitOk ELSE I2cError(code)

\* FromPrimitive::from_u8(b).unwrap(): Register has every value 0x00..0x46
IsRegister(b) == b \in 0..LAST_REGISTER

\* write_reg: let buffer = [reg as u8, val]
WriteRegBytes(reg, val) == <<reg, val>>

\* write_buffer: data = [0; 25]; data[0] = reg | CTRL_AUTO_INCR;
\* data[1..=buf.len()] = buf; the bytes sent are data[..=buf.len()]
WriteBufferBytes(reg, buf) ==
    LET data == [i \in 0..(STAGING_LEN - 1) |->
                    IF i = 0 THEN BitOr(reg, CTRL_AUTO_INCR)
                    ELSE IF i <= Len(buf) THEN buf[i] ELSE 0]
    IN  [i \in 1..(Len(buf) + 1) |-> data[i - 1]]

\* a slice of the staging buffer that would run past its end panics
StagingOverrun(buf) == Len(buf) + 1 > STAGING_LEN

\* `led >= NUM_LEDS as u8`
LedOutOfRange_Exclusive(led) == led > NUM_LEDS
LedOutOfRange(led) == led >= NUM_LEDS

\* `vals.len() > NUM_LEDS`
TooManyLeds_Inclusive(n) == n >= NUM_LEDS
TooManyLeds(n) == n > NUM_LEDS

\* vals.len().try_into().unwrap_or(0xFF)
LenAsU8(n) == IF n <= 255 THEN n ELSE 255

\* set_a_led_pwm(led, val) on driver dev, the device answering with code:
\* the value returned and the transactions issued
SetALedPwm(dev, led, val, code) ==
    IF LedOutOfRange(led)
    THEN [ret |-> InvalidLED(led), tx |-> <<>>]
    ELSE IF ~IsRegister((PWM0 + led) % 256)
    THEN [ret |-> Panicked, tx |-> <<>>]
    ELSE [ret |-> MapErr(code), tx |-> <<Write(dev, WriteRegBytes(PWM0 + led, val), code)>>]

\* set_all_led_pwm(vals) on driver dev, the device answering with code
SetAllLedPwm(dev, vals, code) ==
    IF TooManyLeds(Len(vals))
    THEN [ret |-> InvalidLED(LenAsU8(Len(vals))), tx |-> <<>>]
    ELSE IF StagingOverrun(vals)
    THEN [ret |-> Panicked, tx |-> <<>>]
    ELSE [ret |-> MapErr(code), tx |-> <<Write(dev, WriteBufferBytes(PWM0, vals), code)>>]

\* byte values and channel numbers the operations are called with
LedArgs == 0..(NUM_LEDS + 2) \cup {255}
MaxValsLen == 26

\* the slices set_all_led_pwm is called with: every length up to MaxValsLen,
\* filled with zeros, with 255, with distinct values and with a mixed pattern
ValsArgs ==
    {[i \in 1..n |-> 0] : n \in 0..MaxValsLen}
    \cup {[i \in 1..n |-> 255] : n \in 0..MaxValsLen}
    \cup {[i \in 1..n |-> i] : n \in 0..MaxValsLen}
    \cup {[i \in 1..n |-> (i * 37 + 128) % 256] : n \in 0..MaxValsLen}

\* a public operation that is not check_for_errors starts, with fresh locals;
\* m is the MODE2 value it reads, 0 when it reads none
EnterReading(o, side, a, pc, m) ==
    /\ lpc = "idle"
    /\ op' = o
    /\ arg' = a
    /\ ctl' = side
    /\ lpc' = pc
    /\ mode2' = m
    /\ eflags' = NoEflags
    /\ err_state' = DefaultErrorState
    /\ cfe_ret' = NoRes
    /\ polls' = NotPolled
    /\ errs' = NoErrs
    /\ UNCHANGED seqVars

Enter(o, side, a, pc) == EnterReading(o, side, a, pc, 0)

\* Pca9956B::set_a_led_pwm(led, val), from the call to its return
SetALedPwmCall ==
    /\ lpc = "idle"
    /\ \E side \in Sides, led \in LedArgs, val \in U8, code \in {"none"} \cup ResponseCodes :
      LET r == SetALedPwm(side, led, val, code) IN
      /\ code # "none" => r.tx # <<>>
      /\ Enter("set_a_led_pwm", side, [NoArg EXCEPT !.led = led, !.val = val], "done")
      /\ bus' = r.tx
      /\ ret' = r.ret

\* Pca9956B::set_all_led_pwm(vals), from the call to its return
SetAllLedPwmCall ==
    /\ lpc = "idle"
    /\ \E side \in Sides, vals \in ValsArgs, code \in {"none"} \cup ResponseCodes :
      LET r == SetAllLedPwm(side, vals, code) IN
      /\ code # "none" => r.tx # <<>>
      /\ Enter("set_all_led_pwm", side, [NoArg EXCEPT !.vals = vals], "done")
      /\ bus' = r.tx
      /\ ret' = r.ret

\* LED_MAP: <<controller, output>> of ports 0..31, then of the system LED
LedMapRows ==
    << <<Left, 0>>,   <<Left, 2>>,   <<Left, 4>>,   <<Left, 6>>,
       <<Left, 8>>,   <<Left, 10>>,  <<Left, 15>>,  <<Left, 13>>,
       <<Right, 0>>,  <<Right, 2>>,  <<Right, 4>>,  <<Right, 6>>,
       <<Right, 8>>,  <<Right, 10>>, <<Right, 15>>, <<Right, 13>>,
       <<Left, 3>>,   <<Left, 1>>,   <<Left, 7>>,   <<Left, 5>>,
       <<Left, 9>>,   <<Left, 11>>,  <<Left, 14>>,  <<Left, 12>>,
       <<Right, 3>>,  <<Right, 1>>,  <<Right, 7>>,  <<Right, 5>>,
       <<Right, 9>>,  <<Right, 11>>, <<Right, 14>>, <<Right, 12>>,
       <<Left, 23>> >>

LED_MAP_SystemOnPort ==
    [i \in 0..(Len(LedMapRows) - 1) |->
       [controller |-> LedMapRows[i + 1][1],
        output |-> IF i = Len(LedMapRows) - 1 THEN 13 ELSE LedMapRows[i + 1][2]]]
LED_MAP ==
    [i \in 0..(Len(LedMapRows) - 1) |->
       [controller |-> LedMapRows[i + 1][1], output |-> LedMapRows[i + 1][2]]]

SYSTEM_LED_IDX == 32

\* the masks update_led_state is called with, each as the set of its set bits:
\* none and all, every single bit, every single bit cleared, and three patterns
MaskArgs ==
    {{}, 0..(NUM_PORTS - 1)}
    \cup {{i} : i \in 0..(NUM_PORTS - 1)}
    \cup {(0..(NUM_PORTS - 1)) \ {i} : i \in 0..(NUM_PORTS - 1)}
    \cup {{i \in 0..(NUM_PORTS - 1) : i % 2 = 0}, 0..15, {0, 7, 8, 16, 31}}

\* `if (mask & bit_mask) != 0 { DEFAULT_LED_PWM } else { 0 }`
PwmValue_AlwaysOn(on) == DEFAULT_LED_PWM
PwmValue(on) == IF on THEN DEFAULT_LED_PWM ELSE 0

\* the indices of data_l and of data_r: `[u8; 16]`
PortBufIndices_AllChannels == 0..(NUM_LEDS - 1)
PortBufIndices == 0..(PORT_BUF_LEN - 1)

\* `(mask & bit_mask) != 0` with bit_mask = 1 << i
BitSet_NextBit(mask, i) == (i + 1) \in mask
BitSet(mask, i) == i \in mask

\* the index LED_MAP[i].output is inside data_l / data_r; an index outside panics
OutputInBuffer(i) == LED_MAP[i].output \in PortBufIndices

\* update_led_state's loop from port i on: data[Left] is data_l, data[Right] is data_r
RECURSIVE FillPortBuffers(_, _, _)
FillPortBuffers(data, mask, i) ==
    IF i >= NUM_PORTS THEN data
    ELSE LET pwm_value == PwmValue(BitSet(mask, i))
             loc       == LED_MAP[i]
         IN  FillPortBuffers([data EXCEPT ![loc.controller][loc.output] = pwm_value],
                             mask, i + 1)

\* data_l and data_r when the loop is over, as the slices handed to set_all_led_pwm
PortBuffers(mask) ==
    LET zero == [s \in Sides |-> [c \in PortBufIndices |-> 0]]
        data == FillPortBuffers(zero, mask, 0)
    IN  [s \in Sides |-> [i \in 1..Cardinality(PortBufIndices) |-> data[s][i - 1]]]

\* Leds::update_led_state(mask): the buffers are filled before the first write
UpdateLedStateCall ==
    /\ lpc = "idle"
    /\ \E mask \in MaskArgs :
      LET inside == \A i \in 0..(NUM_PORTS - 1) : OutputInBuffer(i) IN
      /\ Enter("update_led_state", Left, [NoArg EXCEPT !.mask = mask],
               IF inside THEN "uls_left" ELSE "done")
      /\ bus' = <<>>
      /\ ret' = IF inside THEN NoRes ELSE Panicked

\* Leds::turn_on_system_led, from the call to its return:
\* controllers[LED_MAP[SYSTEM_LED_IDX].controller]
\*     .set_a_led_pwm(LED_MAP[SYSTEM_LED_IDX].output, DEFAULT_LED_PWM)?; Ok(())
TurnOnSystemLedCall ==
    /\ lpc = "idle"
    /\ \E code \in {"none"} \cup ResponseCodes :
      LET loc == LED_MAP[SYSTEM_LED_IDX]
          r   == SetALedPwm(loc.controller, loc.output, DEFAULT_LED_PWM, code) IN
      /\ code # "none" => r.tx # <<>>
      /\ Enter("turn_on_system_led", loc.controller, NoArg, "done")
      /\ bus' = r.tx
      /\ ret' = r.ret

\* the `?` on the left driver's result: on to the right driver, or return the error
AfterLeftWrite_Return(r) == "done"
AfterLeftWrite_IgnoreErr(r) == "uls_right"
AfterLeftWrite(r) == IF r.tag = "Ok" THEN "uls_right" ELSE "done"

\* self.controllers[Left].set_all_led_pwm(&data_l)?
UlsWriteLeft ==
    /\ lpc = "uls_left"
    /\ \E code \in {"none"} \cup ResponseCodes :
         LET r == SetAllLedPwm(Left, PortBuffers(arg.mask)[Left], code) IN
         /\ bus' = bus \o r.tx
         /\ lpc' = AfterLeftWrite(r.ret)
         /\ ret' = IF AfterLeftWrite(r.ret) = "done" THEN r.ret ELSE ret
         /\ ctl' = IF AfterLeftWrite(r.ret) = "done" THEN ctl ELSE Right
    /\ UNCHANGED <<op, arg, mode2, eflags, err_state, cfe_ret, polls, errs>>
    /\ UNCHANGED seqVars

\* self.controllers[Right].set_all_led_pwm(&data_r)?; Ok(())
UlsWriteRight ==
    /\ lpc = "uls_right"
    /\ \E code \in {"none"} \cup ResponseCodes :
         LET r == SetAllLedPwm(Right, PortBuffers(arg.mask)[Right], code) IN
         /\ bus' = bus \o r.tx
         /\ ret' = r.ret
    /\ lpc' = "done"
    /\ UNCHANGED <<op, arg, ctl, mode2, eflags, err_state, cfe_ret, polls, errs>>
    /\ UNCHANGED seqVars

\* Result<bool, Error> of validate
BoolOk(b) == [tag |-> "Ok", code |-> "none", led |-> 0, val |-> b]

\* `mode & 0x7 == 0x05`
IsValid_LowTwoBits(mode) == BitAnd(mode, 3) = 1
IsValid(mode) == BitAnd(mode, 7) = 5

\* <Pca9956B as Validate>::validate(device), from the call to its return:
\* let mode = read_reg(MODE2)?; Ok(mode & 0x7 == 0x05)
ValidateCall ==
    /\ lpc = "idle"
    /\ \E side \in Sides :
         \/ \E code \in ResponseCodes :
              /\ Enter("validate", side, NoArg, "done")
              /\ bus' = <<ReadReg(side, MODE2, code)>>
              /\ ret' = I2cError(code)
         \/ \E m \in U8 :
              /\ EnterReading("validate", side, NoArg, "done", m)
              /\ bus' = <<ReadReg(side, MODE2, "none")>>
              /\ ret' = BoolOk(IsValid(m))

\* set_iref_all(val) and set_pwm_all(val): write_reg(IREFALL, val), write_reg(PWMALL, val)
SetIrefAll(dev, val, code) ==
    [ret |-> MapErr(code), tx |-> <<Write(dev, WriteRegBytes(IREFALL, val), code)>>]
SetPwmAll(dev, val, code) ==
    [ret |-> MapErr(code), tx |-> <<Write(dev, WriteRegBytes(PWMALL, val), code)>>]

\* Pca9956B::set_iref_all(val), from the call to its return
SetIrefAllCall ==
    /\ lpc = "idle"
    /\ \E side \in Sides, val \in U8, code \in {"none"} \cup ResponseCodes :
      LET r == SetIrefAll(side, val, code) IN
      /\ Enter("set_iref_all", side, [NoArg EXCEPT !.val = val], "done")
      /\ bus' = r.tx
      /\ ret' = r.ret

\* Pca9956B::set_pwm_all(val), from the call to its return
SetPwmAllCall ==
    /\ lpc = "idle"
    /\ \E side \in Sides, val \in U8, code \in {"none"} \cup ResponseCodes :
      LET r == SetPwmAll(side, val, code) IN
      /\ Enter("set_pwm_all", side, [NoArg EXCEPT !.val = val], "done")
      /\ bus' = r.tx
      /\ ret' = r.ret

LEDS_DEFAULT_LED_CURRENT == 222

\* Leds::set_current(value); Leds::initialize_current is set_current(DEFAULT_LED_CURRENT)?
SetCurrentCall ==
    /\ lpc = "idle"
    /\ \/ \E value \in U8 :
            Enter("set_current", Left, [NoArg EXCEPT !.val = value], "sc_write")
       \/ Enter("initialize_current", Left,
                [NoArg EXCEPT !.val = LEDS_DEFAULT_LED_CURRENT], "sc_write")
    /\ bus' = <<>>
    /\ ret' = NoRes

\* the `?` in set_current's loop: the next controller, Ok(()) after the last, or
\* the error
AfterSetIref_LeftOnly(r, side) == "done"
AfterSetIref(r, side) == IF r.tag = "Ok" /\ side = Left THEN "sc_write" ELSE "done"

\* one iteration of set_current's loop: controller.set_iref_all(value)?
SetCurrentWrite ==
    /\ lpc = "sc_write"
    /\ \E code \in {"none"} \cup ResponseCodes :
         LET r == SetIrefAll(ctl, arg.val, code) IN
         /\ bus' = bus \o r.tx
         /\ lpc' = AfterSetIref(r.ret, ctl)
         /\ ret' = IF AfterSetIref(r.ret, ctl) = "done" THEN r.ret ELSE ret
         /\ ctl' = IF AfterSetIref(r.ret, ctl) = "done" THEN ctl ELSE Right
    /\ UNCHANGED <<op, arg, mode2, eflags, err_state, cfe_ret, polls, errs>>
    /\ UNCHANGED seqVars

\* the caller takes the result; neither Leds nor Pca9956B keeps anything of
\* the call (both hold device handles only)
CallDone ==
    /\ lpc = "done"
    /\ lpc' = "idle"
    /\ op' = "none"
    /\ arg' = NoArg
    /\ ctl' = Left
    /\ mode2' = 0
    /\ eflags' = NoEflags
    /\ err_state' = DefaultErrorState
    /\ cfe_ret' = NoRes
    /\ polls' = NotPolled
    /\ errs' = NoErrs
    /\ ret' = NoRes
    /\ bus' = <<>>
    /\ UNCHANGED seqVars

LedsInit ==
    /\ lpc = "idle"
    /\ op = "none"
    /\ arg = NoArg
    /\ ctl = Left
    /\ mode2 = 0
    /\ eflags = NoEflags
    /\ err_state = DefaultErrorState
    /\ cfe_ret = NoRes
    /\ polls = NotPolled
    /\ errs = NoErrs
    /\ ret = NoRes
    /\ bus = <<>>
    /\ sysled = FALSE
    /\ prev = NoPrev

LedsNext ==
    \/ CheckErrorsCall /\ UNCHANGED panelVars
    \/ ErrorSummaryCall /\ UNCHANGED panelVars
    \/ CfeReadMode2 /\ UNCHANGED panelVars
    \/ CfeReadEflags /\ UNCHANGED panelVars
    \/ CfeClearErrors /\ UNCHANGED panelVars
    \/ CheckErrorsReturn /\ UNCHANGED panelVars
    \/ ErrorSummaryReturn /\ UNCHANGED panelVars
    \/ SetALedPwmCall /\ UNCHANGED panelVars
    \/ SetAllLedPwmCall /\ UNCHANGED panelVars
    \/ UpdateLedStateCall /\ UNCHANGED panelVars
    \/ TurnOnSystemLedCall /\ UNCHANGED panelVars
    \/ ValidateCall /\ UNCHANGED panelVars
    \/ SetIrefAllCall /\ UNCHANGED panelVars
    \/ SetPwmAllCall /\ UNCHANGED panelVars
    \/ SetCurrentCall /\ UNCHANGED panelVars
    \/ SetCurrentWrite /\ UNCHANGED panelVars
    \/ UlsWriteLeft /\ UNCHANGED panelVars
    \/ UlsWriteRight /\ UNCHANGED panelVars
    \/ CallDone /\ UNCHANGED panelVars


(***************************************************************************)
(* Sequencer task: main and FrontIOBoard::init                             *)
(***************************************************************************)
\* bound on the polls of phy_powered_up_and_ready that answer "not ready"
MaxPhyPolls == 2

DEFAULT_LED_CURRENT == 222
NUM_CONTROLLERS == 2

\* DeviceState as main and init tell it apart
DeviceStates == {"AwaitingBitstream", "RunningUserDesign", "Unknown"}

\* FpgaError values load_bitstream can fail with
LoadErrors == {"AuxMissingBlob", "BitstreamError"}

Mainboard == "mainboard"
FrontIO(i) == IF i = 0 THEN "front_io_0" ELSE "front_io_1"
LedDriver(i) == IF i = Left THEN "pca9956b_left" ELSE "pca9956b_right"

\* one operation issued by main, with its argument and its outcome
Hw(dev, o, a, res) == [dev |-> dev, op |-> o, arg |-> a, res |-> res]
Sleep(ticks) == Hw("task", "sleep_for", <<ticks>>, "Ok")

\* one ringbuf entry
Tr(ev, id, val) == [ev |-> ev, id |-> id, val |-> val]

FioFresh ==
    [i |-> 0, state |-> "Unknown", ident_valid |-> FALSE, checksum_valid |-> FALSE,
     controllers_ready |-> TRUE, verified |-> <<>>, phy_polls |-> 0, fpga |-> 0, led |-> 0,
     result |-> "none"]

SeqInit ==
    /\ mpc = "start"
    /\ fio = FioFresh
    /\ hw = <<>>
    /\ trace = <<>>

\* panic!() and the failing unwraps: the task aborts
Abort == mpc' = "aborted"

\* server.mainboard_controller.await_fpga_ready(25).unwrap_or(Unknown) and the match
MainAwaitFpgaReady ==
    /\ mpc = "start"
    /\ \E r \in DeviceStates \cup {"Err"} :
         LET state == IF r = "Err" THEN "Unknown" ELSE r IN
         /\ hw' = Append(hw, Hw(Mainboard, "await_fpga_ready", <<25>>, r))
         /\ CASE state = "AwaitingBitstream" ->
                   /\ trace' = trace \o <<Tr("FpgaInit", 0, "-"), Tr("LoadingFpgaBitstream", 0, "-")>>
                   /\ mpc' = "m_load"
              [] state = "RunningUserDesign" ->
                   /\ trace' = trace \o <<Tr("FpgaInit", 0, "-"), Tr("SkipLoadingBitstream", 0, "-")>>
                   /\ mpc' = "m_ident"
              [] OTHER ->
                   /\ trace' = Append(trace, Tr("FpgaInit", 0, "-"))
                   /\ Abort
    /\ UNCHANGED fio
    /\ UNCHANGED ledVars

\* where main goes after load_bitstream returned Ok(())
AfterMainLoad_SkipLock == "m_ident"
AfterMainLoad == "m_lock"

\* if matches!(e, FpgaError::AuxMissingBlob) { sleep_for(100) }: what the task
\* does between the failed load and its panic!()
GraceDelay_Always(e) == <<Sleep(100)>>
GraceDelay(e) == IF e = "AuxMissingBlob" THEN <<Sleep(100)>> ELSE <<>>

\* server.mainboard_controller.load_bitstream(AUXFLASH.get_task_id())
MainLoadBitstream ==
    /\ mpc = "m_load"
    /\ \E r \in {"Ok"} \cup LoadErrors :
         IF r = "Ok"
         THEN /\ hw' = Append(hw, Hw(Mainboard, "load_bitstream", <<>>, r))
              /\ mpc' = AfterMainLoad
              /\ UNCHANGED trace
         ELSE /\ trace' = Append(trace, Tr("FpgaBitstreamError", 0, r))
              /\ hw' = hw \o <<Hw(Mainboard, "load_bitstream", <<>>, r)>> \o GraceDelay(r)
              /\ Abort
    /\ UNCHANGED fio
    /\ UNCHANGED ledVars

\* .unwrap_lite() on write_checksum's result: on to the identity read, or abort
AfterMainLock_IgnoreErr(r) == "m_ident"
AfterMainLock(r) == IF r = "Ok" THEN "m_ident" ELSE "aborted"

\* server.mainboard_controller.write_checksum().unwrap_lite()
MainWriteChecksum ==
    /\ mpc = "m_lock"
    /\ \E r \in {"Ok", "Err"} :
         /\ hw' = Append(hw, Hw(Mainboard, "write_checksum", <<>>, r))
         /\ mpc' = AfterMainLock(r)
    /\ UNCHANGED <<fio, trace>>
    /\ UNCHANGED ledVars

\* the `_` arm of the match on ident.id: reset() is called before panic!()
AfterIdMismatch_NoReset == "aborted"
AfterIdMismatch == "m_reset"

\* read_ident().unwrap_lite(), the match on ident.id and checksum_valid(&ident)
MainReadIdent ==
    /\ mpc = "m_ident"
    /\ \/ /\ hw' = Append(hw, Hw(Mainboard, "read_ident", <<>>, "Err"))
          /\ Abort
          /\ UNCHANGED trace
       \/ \E id \in {"EXPECTED_ID", "other"}, sum \in {"short_checksum", "other"} :
          /\ hw' = Append(hw, Hw(Mainboard, "read_ident", <<id, sum>>, "Ok"))
                     \o (IF id = "EXPECTED_ID" /\ sum = "short_checksum"
                         THEN <<Sleep(100)>> ELSE <<>>)
          /\ IF id # "EXPECTED_ID"
             THEN /\ trace' = Append(trace, Tr("InvalidMainboardControllerId", 0, id))
                  /\ mpc' = AfterIdMismatch
             ELSE IF sum # "short_checksum"
             THEN /\ trace' = trace \o <<Tr("MainboardControllerId", 0, id),
                                         Tr("MainboardControllerChecksum", 0, sum),
                                         Tr("ExpectedMainboardControllerChecksum", 0, "short_checksum")>>
                  /\ mpc' = "m_power_down"
             ELSE /\ trace' = trace \o <<Tr("MainboardControllerId", 0, id),
                                         Tr("MainboardControllerChecksum", 0, sum),
                                         Tr("MainboardControllerVersion", 0, "-"),
                                         Tr("MainboardControllerSha", 0, "-"),
                                         Tr("FpgaInitComplete", 0, "-")>>
                  /\ mpc' = "m_seq_state"
    /\ UNCHANGED fio
    /\ UNCHANGED ledVars

\* where main goes after power_down returned r: the `if let Ok(())` guards only
\* the sleep, the reset follows in both cases
AfterPowerDown_OnlyOnOk(r) == IF r = "Ok" THEN "m_reset" ELSE "aborted"
AfterPowerDown(r) == "m_reset"

\* if let Ok(()) = server.tofino.power_down() { sleep_for(25) }
MainTofinoPowerDown ==
    /\ mpc = "m_power_down"
    /\ \E r \in {"Ok", "Err"} :
         /\ hw' = hw \o <<Hw("tofino", "power_down", <<>>, r)>>
                     \o (IF r = "Ok" THEN <<Sleep(25)>> ELSE <<>>)
         /\ mpc' = AfterPowerDown(r)
    /\ UNCHANGED <<fio, trace>>
    /\ UNCHANGED ledVars

\* server.mainboard_controller.reset().unwrap_lite(); panic!()
MainReset ==
    /\ mpc = "m_reset"
    /\ \E r \in {"Ok", "Err"} :
         hw' = Append(hw, Hw(Mainboard, "reset", <<>>, r))
    /\ Abort
    /\ UNCHANGED <<fio, trace>>
    /\ UNCHANGED ledVars

\* server.tofino.sequencer.state().unwrap_or(TofinoSeqState::Initial)
MainSequencerState ==
    /\ mpc = "m_seq_state"
    /\ \E r \in {"A0", "Initial", "Err"} :
         /\ hw' = Append(hw, Hw("tofino", "state", <<>>, r))
         /\ IF r = "A0"
            THEN /\ trace' = trace \o <<Tr("SkipLoadingClockConfiguration", 0, "-"),
                                        Tr("ClockConfigurationComplete", 0, "-")>>
                 /\ mpc' = "m_present"
            ELSE /\ mpc' = "m_clock"
                 /\ UNCHANGED trace
    /\ UNCHANGED fio
    /\ UNCHANGED ledVars

\* else if server.clock_generator.load_config().is_err() { panic!() }
MainLoadClockConfig ==
    /\ mpc = "m_clock"
    /\ \E r \in {"Ok", "Err"} :
         /\ hw' = Append(hw, Hw("clock_generator", "load_config", <<>>, r))
         /\ IF r = "Ok"
            THEN /\ trace' = Append(trace, Tr("ClockConfigurationComplete", 0, "-"))
                 /\ mpc' = "m_present"
            ELSE /\ Abort
                 /\ UNCHANGED trace
    /\ UNCHANGED fio
    /\ UNCHANGED ledVars

\* .unwrap_or(false) on validate's result
Present_ErrIsPresent(r) == r # "false"
Present(r) == r = "true"

\* FrontIOBoard::present: At24Csw080::validate(&self.fruid).unwrap_or(false)
MainFrontIOPresent ==
    /\ mpc = "m_present"
    /\ \E r \in {"true", "false", "Err"} :
         /\ hw' = Append(hw, Hw("fruid", "validate", <<>>, r))
         /\ IF Present(r)
            THEN /\ trace' = Append(trace, Tr("FrontIOBoardPresent", 0, "-"))
                 /\ mpc' = "f_await"
            ELSE /\ trace' = Append(trace, Tr("NoFrontIOBoardPresent", 0, "-"))
                 /\ mpc' = "m_timer"
    /\ fio' = FioFresh
    /\ UNCHANGED ledVars

\* init returns Err(e): main's .unwrap() aborts the task
FioReturnErr ==
    /\ fio' = [fio EXCEPT !.result = "Err"]
    /\ Abort

\* `!ident_valid || !checksum_valid`: the running design is not the expected one
NeedsReset_DroppedNot(iv, cv) == ~iv \/ cv
NeedsReset(iv, cv) == ~iv \/ ~cv

\* `ident_valid && checksum_valid`: the load is skipped
SkipLoad(iv, cv) == iv /\ cv

\* controllers_ready &= ident_valid & checksum_valid
ReadyAfter_IdentOnly(cr, iv, cv) == cr /\ iv
ReadyAfter(cr, iv, cv) == cr /\ iv /\ cv

\* if !server.front_io_board.init().unwrap() { panic!() }, on init's Ok(ready)
AfterInit_IgnoreResult(ready) == "m_phy_power"
AfterInit(ready) == IF ready THEN "m_phy_power" ELSE "aborted"

\* the end of one iteration of init's loop, with the locals f; after the last
\* controller init returns Ok(controllers_ready) and main aborts unless it is true
FioEndIteration(f) ==
    LET cr == ReadyAfter(f.controllers_ready, f.ident_valid, f.checksum_valid)
        g  == [f EXCEPT !.controllers_ready = cr,
                        !.verified = Append(f.verified, f.ident_valid /\ f.checksum_valid)]
    IN  IF f.i + 1 < NUM_CONTROLLERS
        THEN /\ fio' = [g EXCEPT !.i = f.i + 1]
             /\ mpc' = "f_await"
        ELSE /\ fio' = [g EXCEPT !.result = IF cr THEN "Ok(true)" ELSE "Ok(false)"]
             /\ mpc' = AfterInit(cr)

\* let state = controller.await_fpga_ready(25)?; and the locals' initial values
FioAwaitFpgaReady ==
    /\ mpc = "f_await"
    /\ \/ /\ hw' = Append(hw, Hw(FrontIO(fio.i), "await_fpga_ready", <<25>>, "Err"))
          /\ FioReturnErr
          /\ UNCHANGED trace
       \/ \E st \in DeviceStates :
          /\ hw' = Append(hw, Hw(FrontIO(fio.i), "await_fpga_ready", <<25>>, st))
          /\ fio' = [fio EXCEPT !.state = st, !.ident_valid = FALSE, !.checksum_valid = FALSE]
          /\ IF st = "RunningUserDesign"
             THEN /\ mpc' = "f_ident"
                  /\ UNCHANGED trace
             ELSE /\ trace' = Append(trace, Tr("LoadingFrontIOControllerBitstream", fio.i, "-"))
                  /\ mpc' = "f_load"
    /\ UNCHANGED ledVars

\* (ident, ident_valid) = controller.ident_valid()?  (RunningUserDesign on entry)
FioIdentValid ==
    /\ mpc = "f_ident"
    /\ \/ /\ hw' = Append(hw, Hw(FrontIO(fio.i), "ident_valid", <<>>, "Err"))
          /\ FioReturnErr
          /\ UNCHANGED trace
       \/ \E v \in BOOLEAN :
          /\ hw' = Append(hw, Hw(FrontIO(fio.i), "ident_valid", <<v>>, "Ok"))
          /\ fio' = [fio EXCEPT !.ident_valid = v]
          /\ trace' = Append(trace, Tr("FrontIOControllerIdent", fio.i, v))
          /\ mpc' = "f_checksum"
    /\ UNCHANGED ledVars

\* (checksum, checksum_valid) = controller.checksum_valid()?  (RunningUserDesign
\* on entry), then the two tests on ident_valid and checksum_valid
FioChecksumValid ==
    /\ mpc = "f_checksum"
    /\ \/ /\ hw' = Append(hw, Hw(FrontIO(fio.i), "checksum_valid", <<>>, "Err"))
          /\ FioReturnErr
          /\ UNCHANGED trace
       \/ \E v \in BOOLEAN :
          LET f == [fio EXCEPT !.checksum_valid = v] IN
          /\ hw' = Append(hw, Hw(FrontIO(fio.i), "checksum_valid", <<v>>, "Ok"))
          /\ IF NeedsReset(f.ident_valid, v)
             THEN /\ fio' = f
                  /\ mpc' = "f_reset"
                  /\ trace' = Append(trace, Tr("FrontIOControllerChecksum", fio.i, v))
             ELSE IF SkipLoad(f.ident_valid, v)
             THEN /\ trace' = trace \o <<Tr("FrontIOControllerChecksum", fio.i, v),
                                         Tr("SkipLoadingFrontIOControllerBitstream", fio.i, "-")>>
                  /\ FioEndIteration(f)
             ELSE /\ fio' = f
                  /\ mpc' = "f_load"
                  /\ trace' = trace \o <<Tr("FrontIOControllerChecksum", fio.i, v),
                                         Tr("LoadingFrontIOControllerBitstream", fio.i, "-")>>
    /\ UNCHANGED ledVars

\* controller.fpga_reset()?; then the load branch is taken
FioReset ==
    /\ mpc = "f_reset"
    /\ \/ /\ hw' = Append(hw, Hw(FrontIO(fio.i), "fpga_reset", <<>>, "Err"))
          /\ FioReturnErr
          /\ UNCHANGED trace
       \/ /\ hw' = Append(hw, Hw(FrontIO(fio.i), "fpga_reset", <<>>, "Ok"))
          /\ IF SkipLoad(fio.ident_valid, fio.checksum_valid)
             THEN /\ trace' = Append(trace, Tr("SkipLoadingFrontIOControllerBitstream", fio.i, "-"))
                  /\ FioEndIteration(fio)
             ELSE /\ trace' = Append(trace, Tr("LoadingFrontIOControllerBitstream", fio.i, "-"))
                  /\ mpc' = "f_load"
                  /\ UNCHANGED fio
    /\ UNCHANGED ledVars

\* controller.load_bitstream(self.auxflash_task)
FioLoadBitstream ==
    /\ mpc = "f_load"
    /\ \E r \in {"Ok"} \cup LoadErrors :
         /\ hw' = Append(hw, Hw(FrontIO(fio.i), "load_bitstream", <<>>, r))
         /\ IF r = "Ok"
            THEN /\ mpc' = "f_ident2"
                 /\ UNCHANGED <<fio, trace>>
            ELSE /\ trace' = Append(trace, Tr("FpgaBitstreamError", fio.i, r))
                 /\ FioReturnErr
    /\ UNCHANGED ledVars

\* the assignment to the local ident_valid of the identity read after the load
IdentAfterLoad_KeepStale(stale, fresh) == stale \/ fresh
IdentAfterLoad(stale, fresh) == fresh

\* (ident, ident_valid) = controller.ident_valid()?  (after the load)
FioIdentValidAfterLoad ==
    /\ mpc = "f_ident2"
    /\ \/ /\ hw' = Append(hw, Hw(FrontIO(fio.i), "ident_valid", <<>>, "Err"))
          /\ FioReturnErr
          /\ UNCHANGED trace
       \/ \E v \in BOOLEAN :
          /\ hw' = Append(hw, Hw(FrontIO(fio.i), "ident_valid", <<v>>, "Ok"))
          /\ fio' = [fio EXCEPT !.ident_valid = IdentAfterLoad(fio.ident_valid, v)]
          /\ trace' = Append(trace, Tr("FrontIOControllerIdent", fio.i, v))
          /\ mpc' = "f_lock"
    /\ UNCHANGED ledVars

\* controller.write_checksum()?
FioWriteChecksum ==
    /\ mpc = "f_lock"
    /\ \E r \in {"Ok", "Err"} :
         /\ hw' = Append(hw, Hw(FrontIO(fio.i), "write_checksum", <<>>, r))
         /\ IF r = "Ok"
            THEN /\ mpc' = "f_checksum2"
                 /\ UNCHANGED fio
            ELSE FioReturnErr
    /\ UNCHANGED trace
    /\ UNCHANGED ledVars

\* (checksum, checksum_valid) = controller.checksum_valid()?  (after the load),
\* then the end of the iteration
FioChecksumValidAfterLoad ==
    /\ mpc = "f_checksum2"
    /\ \/ /\ hw' = Append(hw, Hw(FrontIO(fio.i), "checksum_valid", <<>>, "Err"))
          /\ FioReturnErr
          /\ UNCHANGED trace
       \/ \E v \in BOOLEAN :
          /\ hw' = Append(hw, Hw(FrontIO(fio.i), "checksum_valid", <<v>>, "Ok"))
          /\ trace' = Append(trace, Tr("FrontIOControllerChecksum", fio.i, v))
          /\ FioEndIteration([fio EXCEPT !.checksum_valid = v])
    /\ UNCHANGED ledVars

\* phy_smi.set_phy_power_enabled(true).unwrap()
MainPhyPowerEnable ==
    /\ mpc = "m_phy_power"
    /\ \E r \in {"Ok", "Err"} :
         /\ hw' = Append(hw, Hw("phy_smi", "set_phy_power_enabled", <<TRUE>>, r))
         /\ IF r = "Ok" THEN mpc' = "m_phy_ready" ELSE Abort
    /\ UNCHANGED <<fio, trace>>
    /\ UNCHANGED ledVars

\* while !phy_smi.phy_powered_up_and_ready().unwrap() { sleep_for(10) }
MainPhyReady ==
    /\ mpc = "m_phy_ready"
    /\ \/ /\ hw' = Append(hw, Hw("phy_smi", "phy_powered_up_and_ready", <<>>, "Err"))
          /\ Abort
          /\ UNCHANGED <<fio, trace>>
       \/ /\ hw' = Append(hw, Hw("phy_smi", "phy_powered_up_and_ready", <<>>, "true"))
          /\ trace' = Append(trace, Tr("FrontIOVsc8562Ready", 0, "-"))
          /\ fio' = [fio EXCEPT !.fpga = 0]
          /\ mpc' = "e_fpga"
       \/ /\ fio.phy_polls < MaxPhyPolls
          /\ hw' = hw \o <<Hw("phy_smi", "phy_powered_up_and_ready", <<>>, "false"), Sleep(10)>>
          /\ fio' = [fio EXCEPT !.phy_polls = fio.phy_polls + 1]
          /\ UNCHANGED <<mpc, trace>>
    /\ UNCHANGED ledVars

\* enable_led_controllers, first loop: controller.enable_led_controller()?
EnableLedController ==
    /\ mpc = "e_fpga"
    /\ \E r \in {"Ok", "Err"} :
         /\ hw' = Append(hw, Hw(FrontIO(fio.fpga), "enable_led_controller", <<>>, r))
         /\ IF r = "Err"
            THEN Abort /\ UNCHANGED fio
            ELSE IF fio.fpga + 1 < NUM_CONTROLLERS
            THEN fio' = [fio EXCEPT !.fpga = fio.fpga + 1] /\ UNCHANGED mpc
            ELSE fio' = [fio EXCEPT !.led = Left] /\ mpc' = "e_iref"
    /\ UNCHANGED trace
    /\ UNCHANGED ledVars

\* enable_led_controllers, second loop: led_controller.set_iref_all(DEFAULT_LED_CURRENT)?
EnableSetIrefAll ==
    /\ mpc = "e_iref"
    /\ \E r \in {"Ok", "Err"} :
         /\ hw' = Append(hw, Hw(LedDriver(fio.led), "write", <<IREFALL, DEFAULT_LED_CURRENT>>, r))
         /\ IF r = "Err"
            THEN Abort /\ UNCHANGED <<fio, trace>>
            ELSE IF fio.led = Left
            THEN fio' = [fio EXCEPT !.led = Right] /\ UNCHANGED <<mpc, trace>>
            ELSE /\ trace' = Append(trace, Tr("FrontIOPca9956BEnabled", 0, "-"))
                 /\ mpc' = "m_timer"
                 /\ UNCHANGED fio
    /\ UNCHANGED ledVars

\* readings of the system timer (ms since boot) when main arms its timer
BootTimes == {7, 1000}

\* let deadline = sys_get_timer().now;
\* sys_set_timer(Some(deadline), TIMER_NOTIFICATION_MASK); then the dispatch loop
MainArmTimer ==
    /\ mpc = "m_timer"
    /\ \E now \in BootTimes :
         hw' = hw \o <<Hw("task", "sys_get_timer", <<now>>, "Ok"),
                       Hw("task", "sys_set_timer", <<now>>, "Ok")>>
    /\ mpc' = "serving"
    /\ UNCHANGED <<fio, trace>>
    /\ UNCHANGED ledVars

SeqNext ==
    \/ MainAwaitFpgaReady
    \/ MainLoadBitstream
    \/ MainWriteChecksum
    \/ MainReadIdent
    \/ MainTofinoPowerDown
    \/ MainReset
    \/ MainSequencerState
    \/ MainLoadClockConfig
    \/ MainFrontIOPresent
    \/ FioAwaitFpgaReady
    \/ FioIdentValid
    \/ FioChecksumValid
    \/ FioReset
    \/ FioLoadBitstream
    \/ FioIdentValidAfterLoad
    \/ FioWriteChecksum
    \/ FioChecksumValidAfterLoad
    \/ MainPhyPowerEnable
    \/ MainPhyReady
    \/ EnableLedController
    \/ EnableSetIrefAll
    \/ MainArmTimer

InitLeds == LedsInit /\ SeqInit
NextLeds == LedsNext
SpecLeds == InitLeds /\ [][NextLeds]_vars

InitSeq == SeqInit /\ LedsInit
NextSeq == SeqNext
SpecSeq == InitSeq /\ [][NextSeq]_vars

(***************************************************************************)
(* Properties of check_for_errors and error_summary (under SpecLeds)       *)
(***************************************************************************)
LastBus == bus[Len(bus)]

\* the call in progress is one that runs check_for_errors, and got past it with
\* this result
CfeReturned == lpc \in {"cfe_ret", "done"} /\ op \in {"check_errors", "error_summary"}

\* C1: on the fault path every EFLAG byte b at index i decodes into channels
\* 4i..4i+3 as LedErr::from((b >> 2j) & 3), j = 0..3, for every byte value.
C1_DecodeByBitPairs ==
    lpc = "cfe_clear" =>
        \A i \in 0..(EFLAG_LEN - 1), j \in 0..3 :
            err_state.led_errors[4 * i + j] =
                (CASE BitAnd(Shr(eflags[i], 2 * j), 3) = 0 -> "NoError"
                   [] BitAnd(Shr(eflags[i], 2 * j), 3) = 1 -> "ShortCircuit"
                   [] BitAnd(Shr(eflags[i], 2 * j), 3) = 2 -> "OpenCircuit"
                   [] OTHER -> "Invalid")

\* C2: when MODE2 has bit 7 or bit 6 set, a check_for_errors that runs to its
\* end has issued exactly: a read of MODE2, a 6-byte read at 0x41|0x80, and a
\* write to MODE2 whose value has bit 4 (clear-errors) set.
C2_FaultPathTransactions ==
    (CfeReturned /\ cfe_ret.tag = "Ok" /\ BitAnd(mode2, 192) # 0) =>
        /\ Len(bus) = 3
        /\ bus[1].kind = "read_reg" /\ bus[1].addr = 1
        /\ bus[2].kind = "read_reg_into" /\ bus[2].addr = 193 /\ bus[2].len = 6
        /\ bus[3].kind = "write" /\ bus[3].data[1] = 1 /\ Len(bus[3].data) = 2
        /\ BitAnd(bus[3].data[2], 16) = 16

\* C3: check_for_errors returns Ok(Some(snapshot)) only after its write to
\* MODE2 succeeded; when that write fails with response code r the call
\* returns I2cError(r) and carries no snapshot.
C3_SnapshotOnlyAfterClearWrite ==
    CfeReturned =>
        /\ (cfe_ret.tag = "Ok" /\ cfe_ret.opt.some) =>
              /\ Len(bus) > 0
              /\ LastBus.kind = "write" /\ LastBus.addr = MODE2 /\ LastBus.code = "none"
        /\ (Len(bus) > 0 /\ LastBus.kind = "write" /\ LastBus.code # "none") =>
              /\ cfe_ret.tag = "I2cError" /\ cfe_ret.code = LastBus.code
              /\ ~cfe_ret.opt.some
              /\ (lpc = "done" /\ op = "check_errors") => ret = cfe_ret

\* C3 witness: a call whose MODE2 write failed has returned
C3_Witness ==
    /\ lpc = "done" /\ op = "check_errors"
    /\ Len(bus) = 3 /\ LastBus.kind = "write" /\ LastBus.code = "BusLocked"
    /\ ret.tag = "I2cError"

\* C4: when the MODE2 value read has bits 6 and 7 clear, check_for_errors
\* returns Ok(None) and its only transaction is the MODE2 read.
C4_NoFaultOneTransaction ==
    (CfeReturned /\ Len(bus) > 0 /\ bus[1].code = "none" /\ BitAnd(mode2, 192) = 0) =>
        /\ cfe_ret = OkRes(NoneState)
        /\ bus = <<ReadReg(ctl, 1, "none")>>

\* C4 witness: a no-fault MODE2 reading (CLRERR bit read back as 1) returned
C4_Witness ==
    /\ lpc = "done" /\ op = "check_errors" /\ ctl = Right
    /\ mode2 = 21 /\ Len(bus) = 1 /\ bus[1].code = "none"
    /\ ret = OkRes(NoneState)

\* number of channels of a snapshot that carry fault code e
CountOf(st, e) == Cardinality({c \in 0..(NUM_LEDS - 1) : st.led_errors[c] = e})

PollFoundFault(s) == polls[s].tag = "Ok" /\ polls[s].opt.some

\* C5: error_summary returns Some(summary) whenever a side's poll produced a
\* snapshot, with that side's counts and overtemperature flag taken from the
\* snapshot, and returns None only when no polled side reported a fault.
C5_FaultNeverHidden ==
    (lpc = "done" /\ op = "error_summary") =>
        /\ \A s \in Sides : PollFoundFault(s) =>
              /\ ret.tag = "Ok" /\ ret.some
              /\ LET sum == IF s = Left THEN ret.left ELSE ret.right
                     st == polls[s].opt.val
                 IN  /\ sum.short_circuit = CountOf(st, "ShortCircuit")
                     /\ sum.open_circuit = CountOf(st, "OpenCircuit")
                     /\ sum.invalid = CountOf(st, "Invalid")
                     /\ sum.overtemp = st.overtemp
        /\ (ret.tag = "Ok" /\ ~ret.some) => \A s \in Sides : ~PollFoundFault(s)

\* C6: every call of error_summary polls the left and the right driver.
C6_BothSidesPolled ==
    (lpc = "done" /\ op = "error_summary") =>
        \A s \in Sides :
            /\ polls[s].tag # "none"
            /\ \E k \in 1..Len(bus) : bus[k].dev = s /\ bus[k].kind = "read_reg"

\* C7: when a side's poll inside error_summary fails with a transport error,
\* error_summary does not return what it returns for a successful poll that
\* found no fault (Ok(None)).
C7_PollFailureSurfaced ==
    (lpc = "done" /\ op = "error_summary"
        /\ \E s \in Sides : polls[s].tag = "I2cError") =>
        ret # OkNoSummary

(***************************************************************************)
(* Properties of FPGA bring-up (under SpecSeq)                             *)
(***************************************************************************)
Controllers == {Mainboard, FrontIO(0), FrontIO(1)}

\* positions in hw of the operations o issued to device d
Idx(d, o) == {k \in 1..Len(hw) : hw[k].dev = d /\ hw[k].op = o}
Count(d, o) == Cardinality(Idx(d, o))
First(d, o) == CHOOSE k \in Idx(d, o) : \A j \in Idx(d, o) : k <= j

\* the ready poll of d reported state st
FoundIn(d, st) == \E k \in Idx(d, "await_fpga_ready") : hw[k].res = st

\* bring-up of d completed successfully: main logged FpgaInitComplete, or
\* init's iteration for the controller ended with both values valid
BringUpSucceeded(d) ==
    IF d = Mainboard
    THEN \E k \in 1..Len(trace) : trace[k].ev = "FpgaInitComplete"
    ELSE \E i \in 0..(NUM_CONTROLLERS - 1) :
            d = FrontIO(i) /\ Len(fio.verified) > i /\ fio.verified[i + 1]

\* C8: for the mainboard controller and each front-IO controller, when the
\* ready poll reported AwaitingBitstream and the load succeeded, bring-up has
\* completed successfully only if a write_checksum was issued after the load.
C8_LockWrittenAfterLoad ==
    \A d \in Controllers :
        (FoundIn(d, "AwaitingBitstream") /\ BringUpSucceeded(d)) =>
            \E kl \in Idx(d, "load_bitstream"), kw \in Idx(d, "write_checksum") :
                hw[kl].res = "Ok" /\ kl < kw

\* C8 witness: every controller was found AwaitingBitstream and came up
C8_Witness ==
    /\ mpc = "m_phy_power"
    /\ \A d \in Controllers : FoundIn(d, "AwaitingBitstream") /\ BringUpSucceeded(d)

\* the first identity and checksum values read from d after finding it in
\* RunningUserDesign, once both were read
FirstVerifyRead(d) ==
    IF d = Mainboard
    THEN \E k \in Idx(d, "read_ident") : hw[k].res = "Ok"
    ELSE /\ \E k \in Idx(d, "ident_valid") : TRUE
         /\ \E k \in Idx(d, "checksum_valid") : TRUE
         /\ hw[First(d, "ident_valid")].res = "Ok"
         /\ hw[First(d, "checksum_valid")].res = "Ok"

FirstVerifyMatches(d) ==
    /\ FirstVerifyRead(d)
    /\ IF d = Mainboard
       THEN hw[First(d, "read_ident")].arg = <<"EXPECTED_ID", "short_checksum">>
       ELSE /\ hw[First(d, "ident_valid")].arg = <<TRUE>>
            /\ hw[First(d, "checksum_valid")].arg = <<TRUE>>

\* C9: a controller found in RunningUserDesign whose identity and checksum
\* match is never loaded, locked or reset by bring-up (mainboard controller
\* in main, front-IO controllers in FrontIOBoard::init).
C9_MatchingDesignLeftAlone ==
    \A d \in Controllers :
        (FoundIn(d, "RunningUserDesign") /\ FirstVerifyMatches(d)) =>
            \A k \in 1..Len(hw) :
                hw[k].dev = d =>
                    hw[k].op \notin {"load_bitstream", "write_checksum", "reset", "fpga_reset"}

\* C9 witness: all three controllers were running the expected design and
\* the task reached its serving loop
C9_Witness ==
    /\ mpc = "serving"
    /\ \A d \in Controllers : FoundIn(d, "RunningUserDesign") /\ FirstVerifyMatches(d)

\* the operations FrontIOBoard::init issues to a controller
InitOps ==
    {"await_fpga_ready", "ident_valid", "checksum_valid", "fpga_reset",
     "load_bitstream", "write_checksum"}

\* the operations init issued to d after the first checksum read
RetryOps(d) ==
    LET from == First(d, "checksum_valid")
    IN  SelectSeq(SubSeq(hw, from + 1, Len(hw)),
                  LAMBDA e : e.dev = d /\ e.op \in InitOps)

\* what init does to a controller that runs an unexpected design
RetrySequence ==
    <<"fpga_reset", "load_bitstream", "ident_valid", "write_checksum", "checksum_valid">>

MismatchFound(d) ==
    /\ FoundIn(d, "RunningUserDesign")
    /\ FirstVerifyRead(d)
    /\ ~FirstVerifyMatches(d)

\* C10: within one init call, a front-IO controller found in RunningUserDesign
\* with an identity or checksum mismatch gets exactly one reset, then exactly
\* one load, then exactly one re-read of identity and checksum (an I/O error
\* ends the call inside that sequence); if the re-read still mismatches, no
\* further reset or load follows and init does not return true.  No
\* controller is reset or loaded more than once.
C10_OneRetryOnly ==
    \A i \in 0..(NUM_CONTROLLERS - 1) :
        LET d == FrontIO(i) IN
        /\ Count(d, "fpga_reset") <= 1
        /\ Count(d, "load_bitstream") <= 1
        /\ MismatchFound(d) =>
             LET ops == RetryOps(d) IN
             /\ Len(ops) <= Len(RetrySequence)
             /\ \A k \in 1..Len(ops) :
                    /\ ops[k].op = RetrySequence[k]
                    /\ k < Len(ops) => ops[k].res = "Ok"
             \* the sequence stops short only while in progress or on an I/O error
             /\ Len(ops) < Len(RetrySequence) =>
                    \/ mpc \in {"f_reset", "f_load", "f_ident2", "f_lock", "f_checksum2"} /\ fio.i = i
                    \/ Len(ops) > 0 /\ ops[Len(ops)].res # "Ok" /\ fio.result = "Err"
             \* the iteration ran to its end: one reset, one load, one re-read
             /\ Len(fio.verified) > i =>
                    /\ Len(ops) = Len(RetrySequence)
                    /\ Count(d, "fpga_reset") = 1 /\ Count(d, "load_bitstream") = 1
                    /\ Count(d, "ident_valid") = 2 /\ Count(d, "checksum_valid") = 2
                    /\ fio.verified[i + 1] = (ops[3].arg = <<TRUE>> /\ ops[5].arg = <<TRUE>>)
                    /\ ~fio.verified[i + 1] => fio.result # "Ok(true)"
                    /\ (~fio.verified[i + 1] /\ Len(fio.verified) = NUM_CONTROLLERS) =>
                          fio.result = "Ok(false)"

\* C10 witness: controller 0 mismatched, was reset and reloaded once, still
\* mismatched on the checksum alone, and init returned false
C10_Witness ==
    /\ MismatchFound(FrontIO(0))
    /\ Len(RetryOps(FrontIO(0))) = 5
    /\ RetryOps(FrontIO(0))[3].arg = <<TRUE>>
    /\ RetryOps(FrontIO(0))[5].arg = <<FALSE>>
    /\ Len(fio.verified) = NUM_CONTROLLERS /\ fio.verified[2]
    /\ fio.result = "Ok(false)"

(***************************************************************************)
(* The Leds operations against the front panel.  The only device state     *)
(* kept is whether the system LED's register, PWM23 of the left driver,    *)
(* holds DEFAULT_LED_PWM; prev carries the last update_led_state call that *)
(* returned Ok into the call that follows it.                              *)
(***************************************************************************)
PWM23 == 33

\* the values a successful write stores in register reg of the driver it
\* addresses.  Bit 7 of the first byte is the auto-increment flag and bits 6..0
\* the address: with the flag the bytes that follow go to consecutive registers,
\* without it the one byte goes to the register addressed.  A write to PWMALL
\* stores its byte in every PWMx.
StoredAt(tx, reg) ==
    IF tx.kind # "write" \/ tx.code # "none" THEN {}
    ELSE LET a == tx.data[1] IN
         IF BitAnd(a, CTRL_AUTO_INCR) # 0
         THEN {tx.data[i] : i \in {j \in 2..Len(tx.data) : (a - CTRL_AUTO_INCR) + (j - 2) = reg}}
         ELSE IF Len(tx.data) < 2 THEN {}
         ELSE IF a = reg \/ (a = PWMALL /\ reg \in PWM0..PWM23) THEN {tx.data[2]}
         ELSE {}

\* the system LED's register after the transactions txs, given what it held
RECURSIVE SysLedAfter(_, _)
SysLedAfter(on, txs) ==
    IF txs = <<>> THEN on
    ELSE LET tx == Head(txs)
             w  == IF tx.dev = Left THEN StoredAt(tx, PWM23) ELSE {}
         IN  SysLedAfter(IF w = {} THEN on ELSE w = {DEFAULT_LED_PWM}, Tail(txs))

\* the transactions the step put on the bus
NewTransactions ==
    IF lpc = "idle" THEN bus'
    ELSE IF lpc = "done" THEN <<>>
    ELSE SubSeq(bus', Len(bus) + 1, Len(bus'))

\* what a step of an operation does to the panel
PanelStep ==
    /\ sysled' = SysLedAfter(sysled, NewTransactions)
    /\ prev' = IF lpc = "done"
               THEN IF op = "update_led_state" /\ ret = UnitOk
                    THEN [some |-> TRUE, mask |-> arg.mask, bus |-> bus]
                    ELSE NoPrev
               ELSE IF lpc = "idle" /\ op' # "update_led_state" THEN NoPrev
               ELSE prev

InitPanel == LedsInit /\ SeqInit

\* the operations a port-status display uses: the system LED is turned on and the
\* port LEDs are updated, in any order and any number of times
NextPanel ==
    \/ TurnOnSystemLedCall /\ PanelStep
    \/ UpdateLedStateCall /\ PanelStep
    \/ UlsWriteLeft /\ PanelStep
    \/ UlsWriteRight /\ PanelStep
    \/ CallDone /\ PanelStep

SpecPanel == InitPanel /\ [][NextPanel]_vars

(***************************************************************************)
(* The sequencer's periodic tick.  main arms the timer and the dispatch     *)
(* loop runs handle_notification once per timer notification; hw records   *)
(* every reading of the timer and every deadline that was set.             *)
(***************************************************************************)

TIMER_INTERVAL == 1000

\* ticks considered in one run
MaxTicks == 3

\* ms between the armed deadline and the handler's first reading of the timer
LateBy == {0, 3}

\* ms that handle_tick takes
TickTimes == {0, 1, 999, 1000, 2500}

\* the deadline the timer is armed with
Deadline == hw[Len(hw)].arg[1]

\* let delta = finish - start;
\* let next_deadline = finish + TIMER_INTERVAL - (delta % TIMER_INTERVAL);
NextDeadline_AddInterval(start, finish) == finish + TIMER_INTERVAL
NextDeadline(start, finish) ==
    LET delta == finish - start
    IN  finish + TIMER_INTERVAL - (delta % TIMER_INTERVAL)

\* ServerImpl::handle_notification
HandleNotification ==
    /\ mpc = "serving"
    /\ Count("tofino", "handle_tick") < MaxTicks
    /\ \E late \in LateBy, busy \in TickTimes, r \in {"Ok", "Err"} :
         LET start  == Deadline + late
             finish == start + busy
         IN  /\ hw' = hw \o <<Hw("task", "sys_get_timer", <<start>>, "Ok"),
                               Hw("tofino", "handle_tick", <<>>, r),
                               Hw("task", "sys_get_timer", <<finish>>, "Ok"),
                               Hw("task", "sys_set_timer", <<NextDeadline(start, finish)>>, "Ok")>>
             /\ trace' = IF r = "Err"
                         THEN Append(trace, Tr("TofinoSequencerError", 0, "-"))
                         ELSE trace
    /\ UNCHANGED <<mpc, fio>>
    /\ UNCHANGED ledVars

\* main has reached the arming of its timer
InitTimer ==
    /\ mpc = "m_timer"
    /\ fio = FioFresh
    /\ hw = <<>>
    /\ trace = <<>>
    /\ LedsInit

NextTimer ==
    \/ MainArmTimer
    \/ HandleNotification

SpecTimer == InitTimer /\ [][NextTimer]_vars

(***************************************************************************)
(* The sequencer task under its supervisor.  A panic!() ends the task and  *)
(* the supervisor starts it again at main; the task keeps nothing across   *)
(* the restart, the FPGA keeps its configuration.  hw is the history of    *)
(* the whole system, with one "restart" entry per restart of the task.     *)
(***************************************************************************)

\* restarts considered in one run of the system
MaxRestarts == 3

Restarts == Count("supervisor", "restart")

\* main's "when the task is restarted": the task starts again at main with fresh
\* memory (server, locals and ring buffer)
Restart ==
    /\ mpc = "aborted"
    /\ Restarts < MaxRestarts
    /\ hw' = Append(hw, Hw("supervisor", "restart", <<>>, "Ok"))
    /\ mpc' = "start"
    /\ fio' = FioFresh
    /\ trace' = <<>>
    /\ UNCHANGED ledVars

\* the last successful reset or load of device d before entry k of hw, 0 if none
LastConfig(d, k) ==
    LET S == {j \in 1..(k - 1) : /\ hw[j].dev = d
                                 /\ hw[j].op \in {"reset", "fpga_reset", "load_bitstream"}
                                 /\ hw[j].res = "Ok"}
    IN  IF S = {} THEN 0 ELSE CHOOSE j \in S : \A i \in S : i <= j

\* the mainboard FPGA as main's comments describe it: a reset leaves it awaiting
\* a bitstream ("this will force a bitstream load when the task is restarted"),
\* a load leaves it running the stored design until the next reset, and the
\* design it runs, like the stored one, does not change by itself
FpgaFaithful ==
    /\ \A k \in Idx(Mainboard, "await_fpga_ready") :
         hw[k].res \in {"AwaitingBitstream", "RunningUserDesign"} =>
           LET c == LastConfig(Mainboard, k) IN
           IF c # 0
           THEN hw[k].res = IF hw[c].op = "reset" THEN "AwaitingBitstream"
                                                  ELSE "RunningUserDesign"
           ELSE \A j \in Idx(Mainboard, "await_fpga_ready") :
                  (j < k /\ hw[j].res \in {"AwaitingBitstream", "RunningUserDesign"})
                     => hw[j].res = hw[k].res
    /\ \A k1, k2 \in Idx(Mainboard, "read_ident") :
         ( /\ hw[k1].res = "Ok" /\ hw[k2].res = "Ok"
           /\ (LastConfig(Mainboard, k1) = 0) = (LastConfig(Mainboard, k2) = 0) )
            => hw[k1].arg = hw[k2].arg

\* the runs considered: every operation on the hardware succeeds (no transport
\* error, no ready timeout, no failed load), and the front-IO design read back
\* after a load is the expected one; what varies is the state and the design each
\* FPGA is found in, the design stored for the mainboard controller, and whether
\* the front-IO board is there
IoSucceeds ==
    \A k \in 1..Len(hw) :
      /\ hw[k].res \notin {"Err", "Unknown"} \cup LoadErrors
      /\ (hw[k].op \in {"ident_valid", "checksum_valid"}
            /\ LastConfig(hw[k].dev, k) # 0
            /\ hw[LastConfig(hw[k].dev, k)].op = "load_bitstream")
           => hw[k].arg = <<TRUE>>

SupEnv == FpgaFaithful /\ IoSucceeds

InitSup == SeqInit /\ LedsInit

NextSup ==
    \/ MainAwaitFpgaReady /\ SupEnv'
    \/ MainLoadBitstream /\ SupEnv'
    \/ MainWriteChecksum /\ SupEnv'
    \/ MainReadIdent /\ SupEnv'
    \/ MainTofinoPowerDown /\ SupEnv'
    \/ MainReset /\ SupEnv'
    \/ MainSequencerState /\ SupEnv'
    \/ MainLoadClockConfig /\ SupEnv'
    \/ MainFrontIOPresent /\ SupEnv'
    \/ FioAwaitFpgaReady /\ SupEnv'
    \/ FioIdentValid /\ SupEnv'
    \/ FioChecksumValid /\ SupEnv'
    \/ FioReset /\ SupEnv'
    \/ FioLoadBitstream /\ SupEnv'
    \/ FioIdentValidAfterLoad /\ SupEnv'
    \/ FioWriteChecksum /\ SupEnv'
    \/ FioChecksumValidAfterLoad /\ SupEnv'
    \/ MainPhyPowerEnable /\ SupEnv'
    \/ MainPhyReady /\ SupEnv'
    \/ EnableLedController /\ SupEnv'
    \/ EnableSetIrefAll /\ SupEnv'
    \/ MainArmTimer /\ SupEnv'
    \/ Restart

SpecSup == InitSup /\ [][NextSup]_vars

\* the task runs whenever it can run, and the supervisor restarts it
SpecSupFair == SpecSup /\ WF_vars(NextSup)

\* ---- C11 ----
\* a reset-and-reload cycle of the mainboard controller: a successful load that
\* follows a reset
ReloadCycles ==
    {k \in Idx(Mainboard, "load_bitstream") :
        hw[k].res = "Ok" /\ \E j \in Idx(Mainboard, "reset") : j < k}

\* every design read back after a load had a wrong identity or a wrong checksum
EveryLoadedImageMismatches ==
    \A k \in Idx(Mainboard, "read_ident") :
      (hw[k].res = "Ok" /\ LastConfig(Mainboard, k) # 0)
         => hw[k].arg # <<"EXPECTED_ID", "short_checksum">>

\* C11: under the supervisor, when every loaded image mismatches, the mainboard
\* controller goes through at most one reset-and-reload cycle
C11_ReloadCyclesBounded ==
    EveryLoadedImageMismatches => Cardinality(ReloadCycles) <= 1

\* ---- C12 ----
\* the operations that enable hardware behind the front-IO controllers
EnableOps ==
    {k \in 1..Len(hw) :
        \/ hw[k].op \in {"set_phy_power_enabled", "enable_led_controller"}
        \/ hw[k].dev \in {LedDriver(Left), LedDriver(Right)}}

\* the last identity and checksum read of front-IO controller i both matched
VerifiedInLog(i) ==
    \A o \in {"ident_valid", "checksum_valid"} :
      /\ Idx(FrontIO(i), o) # {}
      /\ \E k \in Idx(FrontIO(i), o) :
           /\ hw[k].arg = <<TRUE>>
           /\ \A j \in Idx(FrontIO(i), o) : j <= k

\* C12: PHY power enable, enable_led_controller and the LED drivers' writes are
\* issued only after init returned Ok(true) with both controllers verified, and
\* after every operation of init
C12_EnableOnlyAfterVerified ==
    EnableOps # {} =>
      /\ fio.result = "Ok(true)"
      /\ fio.verified = <<TRUE, TRUE>>
      /\ \A i \in 0..(NUM_CONTROLLERS - 1) : VerifiedInLog(i)
      /\ \A k \in EnableOps :
           \A j \in 1..Len(hw) :
             (hw[j].dev \in {FrontIO(0), FrontIO(1)} /\ hw[j].op \in InitOps) => j < k

\* both LED drivers got their current after a bring-up that loaded a controller
C12_Witness ==
    /\ mpc = "m_timer"
    /\ \E k \in EnableOps : hw[k].dev = LedDriver(Right) /\ hw[k].res = "Ok"
    /\ Count(FrontIO(1), "load_bitstream") = 1

\* ---- C13 ----
\* C13: when init leaves a front-IO controller unverified (it returns Ok(false)),
\* the sequencer task is not aborted
C13_UnverifiedNeverAborts ==
    fio.result = "Ok(false)" => mpc # "aborted"

\* ---- C14 ----
\* C14: after await_fpga_ready failed on a front-IO controller the sequencer task
\* is not aborted
C14_ReadyTimeoutNotFatal ==
    (\E i \in 0..(NUM_CONTROLLERS - 1) :
       \E k \in Idx(FrontIO(i), "await_fpga_ready") : hw[k].res = "Err")
      => mpc # "aborted"

\* ---- C15 ----
\* the primary controller was brought up and verified: the ready poll found one of
\* the two working states, a load (if any) and its lock write succeeded, and the
\* identity read returned the expected identity and checksum
PrimaryVerified ==
    /\ Len(hw) >= 1
    /\ hw[1].dev = Mainboard /\ hw[1].op = "await_fpga_ready"
    /\ hw[1].res \in {"AwaitingBitstream", "RunningUserDesign"}
    /\ hw[1].res = "AwaitingBitstream" =>
         /\ Len(hw) >= 3
         /\ hw[2] = Hw(Mainboard, "load_bitstream", <<>>, "Ok")
         /\ hw[3] = Hw(Mainboard, "write_checksum", <<>>, "Ok")
    /\ hw[1].res = "RunningUserDesign" =>
         Count(Mainboard, "load_bitstream") + Count(Mainboard, "write_checksum") = 0
    /\ \E k \in Idx(Mainboard, "read_ident") :
         hw[k] = Hw(Mainboard, "read_ident", <<"EXPECTED_ID", "short_checksum">>, "Ok")

\* one of the outcomes that must end in an abort
PrimaryFailed ==
    \E k \in 1..Len(hw) :
      /\ hw[k].dev = Mainboard
      /\ \/ hw[k].op = "await_fpga_ready" /\ hw[k].res \in {"Err", "Unknown"}
         \/ hw[k].op = "load_bitstream" /\ hw[k].res # "Ok"
         \/ hw[k].op = "write_checksum" /\ hw[k].res # "Ok"
         \/ hw[k].op = "read_ident" /\ hw[k].res # "Ok"
         \/ hw[k].op = "read_ident" /\ hw[k].res = "Ok"
              /\ hw[k].arg # <<"EXPECTED_ID", "short_checksum">>

\* main has gone past the primary controller's bring-up
PastPrimary ==
    mpc \notin {"start", "m_load", "m_lock", "m_ident", "m_power_down", "m_reset", "aborted"}

\* C15: main goes past the primary bring-up, and so reaches its dispatch loop,
\* only with the primary controller verified; after any other outcome it is on
\* its way to the abort (power-down, reset) or aborted
C15_ServeOnlyWhenPrimaryVerified ==
    /\ PastPrimary => PrimaryVerified
    /\ mpc = "serving" => PrimaryVerified /\ ~PrimaryFailed
    /\ PrimaryFailed => mpc \in {"m_power_down", "m_reset", "aborted"}

\* the dispatch loop is reached after a load and a lock write
C15_Witness ==
    /\ mpc = "serving"
    /\ Count(Mainboard, "write_checksum") = 1

\* ---- C16 ----
\* C16: a failed load of the primary bitstream leaves the task aborted with the
\* lock never written, and the 100 ms sleep follows the failed load exactly when
\* the failure is AuxMissingBlob
C16_LoadFailureAborts ==
    \A k \in Idx(Mainboard, "load_bitstream") :
      hw[k].res # "Ok" =>
        /\ mpc = "aborted"
        /\ Count(Mainboard, "write_checksum") = 0
        /\ IF hw[k].res = "AuxMissingBlob"
           THEN Len(hw) = k + 1 /\ hw[k + 1] = Sleep(100)
           ELSE Len(hw) = k

\* the missing-blob failure happened
C16_Witness ==
    /\ mpc = "aborted"
    /\ \E k \in Idx(Mainboard, "load_bitstream") : hw[k].res = "AuxMissingBlob"

\* ---- C17 ----
\* the system starts with the primary controller running a design whose identity
\* or checksum does not match
StartsMismatched ==
    /\ Len(hw) >= 2
    /\ hw[1] = Hw(Mainboard, "await_fpga_ready", <<25>>, "RunningUserDesign")
    /\ hw[2].dev = Mainboard /\ hw[2].op = "read_ident" /\ hw[2].res = "Ok"
    /\ hw[2].arg # <<"EXPECTED_ID", "short_checksum">>

\* the stored bitstream is the expected one: what is read back after a load matches
StoredIsExpected ==
    \A k \in Idx(Mainboard, "read_ident") :
      (hw[k].res = "Ok" /\ LastConfig(Mainboard, k) # 0)
         => hw[k].arg = <<"EXPECTED_ID", "short_checksum">>

\* what the restarted task does to the primary controller, in order
ReloadSteps ==
    << [op |-> "await_fpga_ready", res |-> "AwaitingBitstream"],
       [op |-> "load_bitstream",   res |-> "Ok"],
       [op |-> "write_checksum",   res |-> "Ok"],
       [op |-> "read_ident",       res |-> "Ok"] >>

\* the history after the first restart begins with ReloadSteps, as far as it goes
ReloadsAfterRestart ==
    LET r    == First("supervisor", "restart")
        rest == SubSeq(hw, r + 1, Len(hw))
    IN  /\ hw[r - 1] = Hw(Mainboard, "reset", <<>>, "Ok")
        /\ \A i \in 1..Len(ReloadSteps) :
             i <= Len(rest) =>
               /\ rest[i].dev = Mainboard
               /\ rest[i].op = ReloadSteps[i].op
               /\ rest[i].res = ReloadSteps[i].res

\* the safety half: one abort, right after the reset; the restarted task reloads,
\* locks and verifies; the dispatch loop is reached after exactly one restart
OneRestartThenVerified ==
    (StartsMismatched /\ StoredIsExpected) =>
      /\ Restarts <= 1
      /\ mpc = "aborted" => (Restarts = 0 /\ hw[Len(hw)] = Hw(Mainboard, "reset", <<>>, "Ok"))
      /\ Restarts = 1 => ReloadsAfterRestart
      /\ mpc = "serving" =>
           /\ Restarts = 1
           /\ Count(Mainboard, "reset") = 1
           /\ Count(Mainboard, "load_bitstream") = 1
           /\ Count(Mainboard, "write_checksum") = 1
           /\ \E k \in Idx("supervisor", "restart") : PastPrimary /\ k < First(Mainboard, "load_bitstream")

Returned(o) == lpc = "done" /\ op = o

\* the device's answer to a transaction matches what the call returned
AnswerReturned(t) ==
    IF t.code = "none" THEN ret = UnitOk ELSE ret = I2cError(t.code)

\* C18: set_a_led_pwm(c, v) with c in 0..23 issues exactly one write, of the two
\* bytes [0x0A + c, v] with bit 7 of the first clear; with c >= 24 it returns
\* InvalidLED(c) and issues nothing
C18_SetOneChannel ==
    Returned("set_a_led_pwm") =>
      IF arg.led <= 23
      THEN /\ Len(bus) = 1
           /\ bus[1].kind = "write"
           /\ bus[1].dev = ctl
           /\ bus[1].data = <<10 + arg.led, arg.val>>
           /\ BitAnd(bus[1].data[1], 128) = 0
           /\ AnswerReturned(bus[1])
      ELSE /\ bus = <<>>
           /\ ret = InvalidLED(arg.led)

\* the last channel was written with a non-zero value
C18_Witness ==
    /\ Returned("set_a_led_pwm")
    /\ arg.led = 23 /\ arg.val = 200
    /\ Len(bus) = 1 /\ ret = UnitOk

\* ---- C19 ----
\* C19: set_all_led_pwm(vals) with at most 24 values issues exactly one write of
\* len(vals) + 1 bytes, 0x8A and then vals in order, within the 25-byte staging
\* buffer; with more than 24 values it returns InvalidLED and issues nothing
C19_SetAllChannels ==
    Returned("set_all_led_pwm") =>
      IF Len(arg.vals) <= 24
      THEN /\ Len(bus) = 1
           /\ bus[1].kind = "write"
           /\ bus[1].dev = ctl
           /\ bus[1].len = Len(arg.vals) + 1
           /\ Len(bus[1].data) = Len(arg.vals) + 1
           /\ Len(bus[1].data) <= 25
           /\ bus[1].data[1] = 138
           /\ \A i \in 1..Len(arg.vals) : bus[1].data[i + 1] = arg.vals[i]
           /\ AnswerReturned(bus[1])
      ELSE /\ bus = <<>>
           /\ ret.tag = "InvalidLED"

\* a full slice of 24 distinct values was written
C19_Witness ==
    /\ Returned("set_all_led_pwm")
    /\ arg.vals = [i \in 1..24 |-> i]
    /\ Len(bus) = 1 /\ ret = UnitOk

\* ---- C20 ----
\* a successful update_led_state issued two burst writes at PWM0 with
\* auto-increment, the first to the left driver and the second to the right,
\* each carrying n channel values
TwoBurstsOf(n) ==
    (Returned("update_led_state") /\ ret = UnitOk) =>
      /\ Len(bus) = 2
      /\ bus[1].dev = Left /\ bus[2].dev = Right
      /\ \A k \in 1..2 :
           /\ bus[k].kind = "write"
           /\ bus[k].code = "none"
           /\ bus[k].data[1] = 138
           /\ Len(bus[k].data) = n + 1

\* C20 as stated: the two bursts each carry a full 24-entry channel buffer
C20_TwoBurstsOf24 == TwoBurstsOf(24)

\* C20 amended: the two bursts each carry the 16-entry buffer of channels 0..15,
\* whatever the mask
C20_TwoBurstsOf16 == TwoBurstsOf(16)

\* a successful update with some LEDs on and some off
C20_Witness ==
    /\ Returned("update_led_state") /\ ret = UnitOk
    /\ arg.mask = {0, 7, 8, 16, 31}
    /\ Len(bus) = 2

\* ---- C21 ----
\* the buffer update_led_state sent to side s, entry for channel c
SentEntry(s, c) ==
    LET k == CHOOSE k \in 1..Len(bus) : bus[k].dev = s IN bus[k].data[c + 2]

\* the channels the buffer sent to side s covers
SentChannels(s) ==
    LET k == CHOOSE k \in 1..Len(bus) : bus[k].dev = s IN 0..(Len(bus[k].data) - 2)

\* C21: in every buffer update_led_state sends, the entry of channel c on side s
\* is 255 when a port whose bit is set in the mask maps to (s, c) and 0
\* otherwise, and no port's output indexes outside the buffer
C21_BufferFollowsMap ==
    (op = "update_led_state" /\ lpc \in {"uls_right", "done"}) =>
      /\ ret.tag # "panic"
      /\ \A p \in 0..31 : LED_MAP[p].output <= 15
      /\ \A s \in Sides :
           (\E k \in 1..Len(bus) : bus[k].dev = s) =>
             \A c \in SentChannels(s) :
               SentEntry(s, c) =
                 IF \E p \in 0..31 :
                      p \in arg.mask /\ LED_MAP[p].controller = s /\ LED_MAP[p].output = c
                 THEN 255 ELSE 0

\* both buffers were sent for a mask with bits on both sides: port 0 is left
\* channel 0, port 31 is right channel 12
C21_Witness ==
    /\ Returned("update_led_state") /\ Len(bus) = 2
    /\ arg.mask = {0, 7, 8, 16, 31}
    /\ SentEntry(Left, 0) = 255 /\ SentEntry(Right, 12) = 255 /\ SentEntry(Right, 1) = 0

\* ---- C23 ----
\* C23: LED_MAP has exactly 33 entries, no two of them name the same driver and
\* output, every output is a channel 0..23, and the system LED's entry (32) is
\* none of the ports' entries; stated of the table the two operations that read
\* it work with
C23_MapWellFormed ==
    op \in {"update_led_state", "turn_on_system_led"} =>
      /\ DOMAIN LED_MAP = 0..32
      /\ \A i \in DOMAIN LED_MAP, j \in DOMAIN LED_MAP : i # j => LED_MAP[i] # LED_MAP[j]
      /\ \A i \in DOMAIN LED_MAP : LED_MAP[i].output \in 0..23
      /\ \A i \in DOMAIN LED_MAP : LED_MAP[i].controller \in {Left, Right}
      /\ \A p \in 0..31 : LED_MAP[p] # LED_MAP[32]

\* the table's last entry was used: the system LED was written at left channel 23
C23_Witness ==
    /\ Returned("turn_on_system_led") /\ ret = UnitOk
    /\ bus = <<Write(Left, <<33, 255>>, "none")>>

\* ---- C24 ----
\* C24: validate issues exactly one read of MODE2 and no write, and returns
\* Ok(true) exactly when the low three bits of the value read are 0b101, whatever
\* bits 7..3 are
C24_ValidateLowBits ==
    Returned("validate") =>
      /\ Len(bus) = 1
      /\ bus[1].kind = "read_reg" /\ bus[1].addr = 1 /\ bus[1].dev = ctl
      /\ bus[1].code = "none" =>
           /\ ret.tag = "Ok"
           /\ ret.val = (mode2 % 8 = 5)
      /\ bus[1].code # "none" => ret = I2cError(bus[1].code)

\* a reading with high bits set and the low bits 0b101 was accepted
C24_Witness ==
    /\ Returned("validate")
    /\ mode2 = 213
    /\ ret = BoolOk(TRUE)

\* ---- C28 ----
\* the Pca9956B operations that return Result<_, Error> after at most one transaction
SingleTransactionOps ==
    {"set_iref_all", "set_pwm_all", "set_a_led_pwm", "set_all_led_pwm", "validate"}

\* no register is accessed twice in the same way by the call
NoRepeatedTransaction ==
    \A j \in 1..Len(bus), k \in 1..Len(bus) :
      j < k => ~(bus[j].kind = bus[k].kind /\ bus[j].addr = bus[k].addr)

\* C28: in a Pca9956B operation no transaction is attempted twice, and a
\* transaction that fails with response code r is the operation's last and makes
\* it return I2cError(r)
C28_NoRetryErrorReturned ==
    /\ (lpc = "done" /\ op \in SingleTransactionOps) =>
         /\ Len(bus) <= 1
         /\ \A k \in 1..Len(bus) : bus[k].code # "none" => ret = I2cError(bus[k].code)
    /\ CfeReturned =>
         /\ NoRepeatedTransaction
         /\ \A k \in 1..Len(bus) :
              bus[k].code # "none" => (k = Len(bus) /\ cfe_ret = ErrRes(bus[k].code))

\* check_for_errors stopped at its failed EFLAG read
C28_Witness ==
    /\ lpc = "cfe_ret" /\ op = "check_errors"
    /\ Len(bus) = 2 /\ bus[2].code = "NoDevice" /\ cfe_ret = ErrRes("NoDevice")

\* ---- C29 ----
\* the two writes of a current reference v, left driver first
CurrentWrites(v) ==
    << Write(Left, <<64, v>>, "none"), Write(Right, <<64, v>>, "none") >>

\* C29: a successful set_current(v) issues exactly the write [0x40, v] to the left
\* driver and then the same bytes to the right driver, and a successful
\* initialize_current issues what set_current(222) issues
C29_SameCurrentBothDrivers ==
    /\ (Returned("set_current") /\ ret = UnitOk) => bus = CurrentWrites(arg.val)
    /\ (Returned("initialize_current") /\ ret = UnitOk) => bus = CurrentWrites(222)

\* initialize_current returned Ok
C29_Witness ==
    /\ Returned("initialize_current") /\ ret = UnitOk
    /\ Len(bus) = 2 /\ bus[2].dev = Right

\* ---- C22 ----
\* the channel values the call sent to side s, and those of the call before it
SentBuffer(b, s) ==
    LET k == CHOOSE k \in 1..Len(b) : b[k].dev = s IN SubSeq(b[k].data, 2, Len(b[k].data))

\* the entries, over both sides, in which two calls' buffers differ
DifferingEntries(b1, b2) ==
    {<<s, c>> \in Sides \X (1..24) :
        /\ c <= Len(SentBuffer(b1, s))
        /\ c <= Len(SentBuffer(b2, s))
        /\ SentBuffer(b1, s)[c] # SentBuffer(b2, s)[c]}

\* the bits in which two masks differ
DifferingBits(m1, m2) == (m1 \ m2) \cup (m2 \ m1)

\* C22: of two update_led_state calls in a row, both successful, the second sends
\* the same bytes as the first when the masks are equal, and buffers that differ
\* in exactly one entry of one side when the masks differ in exactly one bit
C22_SameMaskSameBuffers ==
    (Returned("update_led_state") /\ ret = UnitOk /\ prev.some) =>
      /\ \A s \in Sides : Len(SentBuffer(bus, s)) = Len(SentBuffer(prev.bus, s))
      /\ arg.mask = prev.mask => bus = prev.bus
      /\ Cardinality(DifferingBits(arg.mask, prev.mask)) = 1 =>
           Cardinality(DifferingEntries(bus, prev.bus)) = 1

\* bit 31 was cleared between two calls
C22_Witness ==
    /\ Returned("update_led_state") /\ ret = UnitOk /\ prev.some
    /\ prev.mask = 0..31 /\ arg.mask = 0..30
    /\ DifferingEntries(bus, prev.bus) = {<<Right, 13>>}

\* ---- C30 ----
\* the registers a write of update_led_state reaches on the left driver
LeftRegistersWritten ==
    {r \in 0..LAST_REGISTER :
        \E k \in 1..Len(bus) : bus[k].dev = Left /\ StoredAt(bus[k], r) # {}}

\* C30: no step of update_led_state changes the system LED's register: once it
\* holds DEFAULT_LED_PWM it holds it after every update_led_state, whatever the mask
C30_SystemLedKept ==
    [][(op' = "update_led_state" /\ lpc' # "idle") =>
          /\ sysled' = sysled
          /\ 33 \notin LeftRegistersWritten']_vars

\* the system LED is on after an update that turned every port LED off
C30_Witness ==
    /\ Returned("update_led_state") /\ ret = UnitOk
    /\ arg.mask = {} /\ sysled
    /\ LeftRegistersWritten = 10..25

\* ---- C26 ----
\* present returned false: the identification device did not validate, or its
\* read failed
FoundAbsent ==
    \E k \in Idx("fruid", "validate") : hw[k].res \in {"false", "Err"}

\* C26: when present returns false, for either reason, main is not aborted, issues
\* no operation on the front-IO controllers, the PHY or the LED drivers, and goes
\* on to arm its timer and to its dispatch loop
C26_AbsentBoardSkipped ==
    FoundAbsent =>
      /\ mpc \in {"m_timer", "serving"}
      /\ \A k \in 1..Len(hw) :
           hw[k].dev \notin {FrontIO(0), FrontIO(1), "phy_smi", LedDriver(Left), LedDriver(Right)}
      /\ mpc = "serving" => hw[Len(hw)].op = "sys_set_timer"

\* the dispatch loop was reached after the identification read failed
C26_Witness ==
    /\ mpc = "serving"
    /\ \E k \in Idx("fruid", "validate") : hw[k].res = "Err"

\* ---- C25 ----
\* the trace buffer holds an entry ev for front-IO controller i
Logged(ev, i) == \E k \in 1..Len(trace) : trace[k].ev = ev /\ trace[k].id = i

\* C25: once init has returned, with Ok or with an error, the trace buffer holds
\* an identity entry and a checksum entry for every controller whose bring-up
\* was started
C25_ValuesLoggedOnEveryOutcome ==
    fio.result # "none" =>
      \A i \in 0..(NUM_CONTROLLERS - 1) :
        Idx(FrontIO(i), "await_fpga_ready") # {} =>
          /\ Logged("FrontIOControllerIdent", i)
          /\ Logged("FrontIOControllerChecksum", i)

\* ---- C27 ----
\* positions in hw of the first timer reading of each run of handle_notification
TickStarts ==
    {k \in 1..(Len(hw) - 3) : hw[k].op = "sys_get_timer" /\ hw[k + 1].op = "handle_tick"}

\* every handler so far made its first reading exactly at the armed deadline
AllOnTime == \A k \in TickStarts : hw[k].arg[1] = hw[k - 1].arg[1]

\* C27: in every run of handle_notification, with readings start <= finish, the
\* deadline that is set is greater than finish, at most finish + TIMER_INTERVAL,
\* and a positive multiple of TIMER_INTERVAL after start; and while every handler
\* starts exactly at its deadline, all deadlines are congruent to the first
\* modulo TIMER_INTERVAL
C27_DeadlinePhaseLocked ==
    /\ \A k \in TickStarts :
         LET start  == hw[k].arg[1]
             finish == hw[k + 2].arg[1]
             next   == hw[k + 3].arg[1]
         IN  /\ start <= finish
             /\ next > finish
             /\ next <= finish + TIMER_INTERVAL
             /\ next > start
             /\ (next - start) % TIMER_INTERVAL = 0
    /\ AllOnTime =>
         \A j \in Idx("task", "sys_set_timer") :
           hw[j].arg[1] % TIMER_INTERVAL
             = hw[First("task", "sys_set_timer")].arg[1] % TIMER_INTERVAL

\* two handlers ran on time from a first deadline off the interval boundary, one
\* of them for more than an interval and not for a whole number of intervals
C27_Witness ==
    /\ Cardinality(TickStarts) >= 2
    /\ AllOnTime
    /\ hw[First("task", "sys_set_timer")].arg[1] % TIMER_INTERVAL # 0
    /\ \E k \in TickStarts :
         /\ hw[k + 2].arg[1] - hw[k].arg[1] > TIMER_INTERVAL
         /\ (hw[k + 2].arg[1] - hw[k].arg[1]) % TIMER_INTERVAL # 0

\* ---- C31 ----
\* position in hw of the last operation o issued to device d
LastOf(d, o) == CHOOSE k \in Idx(d, o) : \A j \in Idx(d, o) : j <= k

\* the last read o of d succeeded, was valid, and came after every reset and
\* every load issued to d
FreshValidRead(d, o) ==
    /\ Idx(d, o) # {}
    /\ hw[LastOf(d, o)].res = "Ok"
    /\ hw[LastOf(d, o)].arg = <<TRUE>>
    /\ \A j \in Idx(d, "fpga_reset") \cup Idx(d, "load_bitstream") : j < LastOf(d, o)

\* C31: init returns Ok(true) only if, for each front-IO controller, the last
\* identity read and the last checksum read of the call were valid and were made
\* after the last reset or load issued to that controller
C31_ReadyOnlyOnFreshReads ==
    fio.result = "Ok(true)" =>
      \A i \in 0..(NUM_CONTROLLERS - 1) :
        /\ FreshValidRead(FrontIO(i), "ident_valid")
        /\ FreshValidRead(FrontIO(i), "checksum_valid")

\* init returned Ok(true) after a controller that was running a design with an
\* invalid value had been reset, loaded and read again
C31_Witness ==
    /\ fio.result = "Ok(true)"
    /\ \E i \in 0..(NUM_CONTROLLERS - 1) :
         /\ Idx(FrontIO(i), "fpga_reset") # {}
         /\ Count(FrontIO(i), "ident_valid") = 2
         /\ Count(FrontIO(i), "checksum_valid") = 2

\* ---- C32 ----
\* positions in hw of the identity reads of the primary controller that returned
\* an identity or a checksum other than the expected one
MismatchReads ==
    {k \in Idx(Mainboard, "read_ident") :
       hw[k].res = "Ok" /\ hw[k].arg # <<"EXPECTED_ID", "short_checksum">>}

\* C32: after an identity or checksum mismatch of the primary controller main
\* does nothing but power down, reset and abort; when it has aborted, a reset of
\* the FPGA is the last operation it issued; on a checksum mismatch the Tofino
\* power-down is attempted directly after the read, before the reset, and the
\* reset follows whatever the power-down returned
C32_ResetBeforeAbort ==
    \A k \in MismatchReads :
      /\ mpc \in {"m_power_down", "m_reset", "aborted"}
      /\ mpc = "aborted" =>
           /\ hw[Len(hw)].dev = Mainboard
           /\ hw[Len(hw)].op = "reset"
           /\ Len(hw) > k
      /\ (hw[k].arg[1] = "EXPECTED_ID" /\ mpc \in {"m_reset", "aborted"}) =>
           /\ Len(hw) > k
           /\ hw[k + 1].dev = "tofino"
           /\ hw[k + 1].op = "power_down"
           /\ \A r \in Idx(Mainboard, "reset") : r > k => r > k + 1

\* main aborted on a checksum mismatch after a power-down that failed
C32_Witness ==
    /\ mpc = "aborted"
    /\ \E k \in MismatchReads :
         /\ hw[k].arg[1] = "EXPECTED_ID"
         /\ hw[k + 1] = Hw("tofino", "power_down", <<>>, "Err")
         /\ hw[k + 2].op = "reset"

\* ---- C33 ----
\* update_led_state is running or has returned
InUpdateLedState == op = "update_led_state" /\ lpc \in {"uls_left", "uls_right", "done"}

\* C33: in update_led_state a transaction with the right driver is only ever the
\* second one, after a left burst that succeeded; when the left burst fails the
\* call returns that error and no transaction with the right driver was issued
C33_LeftFailureStopsUpdate ==
    InUpdateLedState =>
      /\ \A k \in 1..Len(bus) :
           bus[k].dev = Right =>
             k = 2 /\ bus[1].dev = Left /\ bus[1].kind = "write" /\ bus[1].code = "none"
      /\ (Len(bus) >= 1 /\ bus[1].dev = Left /\ bus[1].code # "none") =>
           /\ lpc = "done"
           /\ ret = I2cError(bus[1].code)
           /\ \A k \in 1..Len(bus) : bus[k].dev # Right

\* update_led_state returned the error of a failed left burst
C33_Witness ==
    /\ Returned("update_led_state")
    /\ Len(bus) = 1
    /\ bus[1].dev = Left
    /\ bus[1].code # "none"
    /\ ret = I2cError(bus[1].code)

\* ---- C34 ----
\* positions in bus of an EFLAG burst read that failed
FailedEflagReads ==
    {k \in 1..Len(bus) : bus[k].kind = "read_reg_into" /\ bus[k].code # "none"}

\* C34: when the EFLAG burst read of check_for_errors fails, it is the call's last
\* transaction, no write was issued, and the call returns the read's error
C34_NoClearAfterFailedEflagRead ==
    op \in {"check_errors", "error_summary"} =>
      \A k \in FailedEflagReads :
        /\ k = Len(bus)
        /\ \A j \in 1..Len(bus) : bus[j].kind # "write"
        /\ lpc \in {"cfe_ret", "done"}
        /\ cfe_ret = ErrRes(bus[k].code)
        /\ (lpc = "done" /\ op = "check_errors") => ret = ErrRes(bus[k].code)

\* check_errors returned after a fault was signalled and the EFLAG read failed
C34_Witness ==
    /\ lpc = "done" /\ op = "check_errors"
    /\ FaultSignalled(mode2)
    /\ FailedEflagReads = {2}
    /\ ret.tag = "I2cError"

====
